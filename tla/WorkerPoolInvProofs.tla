------------------------ MODULE WorkerPoolInvProofs ------------------------
(***************************************************************************)
(* The inductive invariant of WorkerPool, and what follows from it.        *)
(*                                                                         *)
(* Every step changes a worker's record in one of a few ways.  Moves(r, q) *)
(* says what all of them but an attach have in common; that a step moves   *)
(* every worker, or grants it, gives the worker part of the invariant and  *)
(* the steps of the lease.  EntryInv says what an entry tells of its       *)
(* process, HeldInv who still leads to a process: both are invariants on   *)
(* top of PoolSafe.                                                        *)
(***************************************************************************)
EXTENDS WorkerPoolProofs, FiniteSetTheorems

Later(state) ==
  CASE state = "NONE" -> {"NONE"}
    [] state = "STARTING" -> {"STARTING", "IDLE", "DEAD"}
    [] state = "IDLE" -> {"IDLE", "DEAD"}
    [] OTHER -> {"DEAD"}

Over == {"none", "done"}

\* A spawn task that is over or has only its cleanup left.
Quiet == Over \cup {"removing"}

Ages(r, q) ==
  /\ q.path = r.path /\ q.id = r.id /\ q.stale = r.stale
  /\ r.state = "NONE" => q = r
  /\ q.state \in Later(r.state)
  /\ r.spawn \in Over => q.spawn \in Over
  /\ r.spawn \in Quiet => q.spawn \in Quiet
  /\ OpenOK(q)

Moves(r, q) == Ages(r, q) /\ q.sessions \subseteq r.sessions

LEMMA MovesSelf ==
  ASSUME NEW r \in WorkerRec, OpenOK(r) PROVE Moves(r, r)
BY DEF Moves, Ages, Later, WorkerRec, States

LEMMA MovesTrans ==
  ASSUME NEW r, NEW q, NEW u, Moves(r, q), Moves(q, u) PROVE Moves(r, u)
BY DEF Moves, Ages, Later

LEMMA AgesTrans ==
  ASSUME NEW r, NEW q, NEW u, Ages(r, q), Ages(q, u) PROVE Ages(r, u)
BY DEF Ages, Later

LEMMA MovesEnded ==
  ASSUME NEW r \in WorkerRec, OpenOK(r), r.state # "NONE",
         r.spawn \notin {"created", "closeStale", "opening"}
  PROVE  Moves(r, Ended(r))
BY DEF Moves, Ages, Later, OpenOK, Ended, WorkerRec, States, SpawnPCs, Over, Quiet

LEMMA MovesCancelled ==
  ASSUME NEW r \in WorkerRec, OpenOK(r), r.state # "NONE"
  PROVE  /\ Moves(r, Cancelled(r))
         /\ Cancelled(r).spawn \notin {"created", "closeStale", "opening"}
         /\ Cancelled(r).sessions = r.sessions
         /\ Cancelled(r).state = r.state
BY DEF Moves, Ages, Later, OpenOK, Cancelled, WorkerRec, States, SpawnPCs, Over, Quiet

LEMMA MovesLaunched ==
  ASSUME NEW r \in WorkerRec, OpenOK(r), r.spawn \in {"created", "closeStale"}
  PROVE  Moves(r, Launched(r))
BY DEF Moves, Ages, Later, OpenOK, Launched, WorkerRec, States, Over, Quiet

LEMMA MovesCloseStale ==
  ASSUME NEW r \in WorkerRec, OpenOK(r), r.spawn = "created"
  PROVE  Moves(r, [r EXCEPT !.spawn = "closeStale"])
BY DEF Moves, Ages, Later, OpenOK, WorkerRec, States, Over, Quiet

LEMMA MovesPublished ==
  ASSUME NEW r \in WorkerRec, OpenOK(r), r.spawn = "opening"
  PROVE  Moves(r, Published(r))
BY DEF Moves, Ages, Later, OpenOK, Published, WorkerRec, States, Over, Quiet

LEMMA MovesWatched ==
  ASSUME NEW r \in WorkerRec, OpenOK(r), r.spawn = "committed"
  PROVE  Moves(r, Watched(r))
BY DEF Moves, Ages, Later, OpenOK, Watched, WorkerRec, States, Over, Quiet

LEMMA MovesFailing ==
  ASSUME NEW r \in WorkerRec, OpenOK(r), r.spawn = "opening"
  PROVE  Moves(r, Failing(r))
BY DEF Moves, Ages, Later, OpenOK, Failing, WorkerRec, States, Over, Quiet

LEMMA MovesFailed ==
  ASSUME NEW r \in WorkerRec, OpenOK(r), r.spawn = "failing", r.state # "NONE"
  PROVE  Moves(r, Failed(r))
BY DEF Moves, Ages, Later, OpenOK, Failed, WorkerRec, States, Over, Quiet

LEMMA MovesRemoved ==
  ASSUME NEW r \in WorkerRec, OpenOK(r), r.spawn = "removing", r.state # "NONE"
  PROVE  Moves(r, [r EXCEPT !.spawn = "done"])
BY DEF Moves, Ages, Later, OpenOK, WorkerRec, States, Over, Quiet

LEMMA MovesClient ==
  ASSUME NEW r \in WorkerRec, OpenOK(r), r.state # "NONE", NEW b
  PROVE  Moves(r, [r EXCEPT !.client = b])
BY DEF Moves, Ages, Later, OpenOK, WorkerRec, States, Over, Quiet

LEMMA MovesProc ==
  ASSUME NEW r \in WorkerRec, OpenOK(r), r.state # "NONE", NEW b
  PROVE  Moves(r, [r EXCEPT !.proc = b])
BY DEF Moves, Ages, Later, OpenOK, WorkerRec, States, Over, Quiet

LEMMA MovesSessions ==
  ASSUME NEW r \in WorkerRec, OpenOK(r), r.state # "NONE", NEW S
  PROVE  /\ Ages(r, [r EXCEPT !.sessions = S])
         /\ [r EXCEPT !.sessions = S].sessions = S
BY DEF Moves, Ages, Later, OpenOK, WorkerRec, States, Over, Quiet

LEMMA MovesDeathWatch ==
  ASSUME NEW r \in WorkerRec, OpenOK(r), r.state # "NONE", r.watched
  PROVE  Moves(r, [r EXCEPT !.state = "DEAD", !.watched = FALSE])
BY DEF Moves, Ages, Later, OpenOK, WorkerRec, States, Over, Quiet

-----------------------------------------------------------------------------
(* What a step does to each worker, to the registry, and to each task *)

PoolSafe == PoolInv /\ OneShutdown /\ NoAttachedSessionLosesItsWorker

Progresses(w) ==
  /\ Moves(wk[w], wk'[w])
  /\ w \in Registered' => w \in Registered

Granted(w) ==
  /\ Ages(wk[w], wk'[w])
  /\ wk[w].state \in {"STARTING", "IDLE"} /\ wk'[w].state = wk[w].state
  /\ w \in Registered /\ w \in Registered'
  /\ \E s \in Sessions : wk'[w].sessions = wk[w].sessions \cup {s}

Born(w) ==
  /\ wk[w].state = "NONE" /\ wk'[w].state = "STARTING"
  /\ w \in Registered'
  /\ \E s \in Sessions : wk'[w].sessions = {s}

LeaseStep == \A w \in Workers : Born(w) \/ Granted(w) \/ Progresses(w)

Shrinks == \A p \in Paths : workers'[p] \in {workers[p], NoWorker}

Kept(t) == task'[t] = task[t] \/ task'[t] = Idle

\* A task goes on with what it had claimed, or claims a worker that leaves the
\* registry in this step; without force, one that no session holds any more.
Claims(t) ==
  \A w \in Workers : ShutsDown(t, w)' =>
    \/ ShutsDown(t, w) /\ task'[t].op = task[t].op
    \/ /\ w \in Registered /\ w \notin Registered'
       /\ t \in Requests => task'[t].op = "forceClose" \/ wk'[w].sessions = {}

LEMMA Basics ==
  ASSUME TypeOK, PoolInv
  PROVE  /\ \A w \in Workers : /\ wk[w] \in WorkerRec /\ WorkerOK(w) /\ OpenOK(wk[w])
                               /\ w \in Nat \ {0}
                               /\ w <= created => wk[w].state # "NONE"
                               /\ wk[w].spawn # "none" => wk[w].state # "NONE"
         /\ \A t \in Tasks : /\ task[t] \in TaskRec /\ TaskOK(t)
                             /\ task[t].w \in Workers \cup {NoWorker}
                             /\ task[t].w # NoWorker => wk[task[t].w].state # "NONE"
                             /\ task[t].todo \subseteq Workers
         /\ \A p \in Paths : /\ workers[p] \in Workers \cup {NoWorker}
                             /\ workers[p] # NoWorker =>
                                  wk[workers[p]].state # "NONE" /\ wk[workers[p]].path = p
         /\ Registered \subseteq Workers
         /\ \A w \in Registered : wk[w].state # "NONE"
         /\ created \in Nat
         /\ NoWorker \notin Workers
<1>1. \A w \in Workers : /\ wk[w] \in WorkerRec /\ WorkerOK(w) /\ OpenOK(wk[w])
                         /\ w \in Nat \ {0}
                         /\ w <= created => wk[w].state # "NONE"
  BY PoolAssumption DEF TypeOK, PoolInv, WorkerOK, Workers
<1>2. \A w \in Workers : wk[w].spawn # "none" => wk[w].state # "NONE"
  BY <1>1 DEF WorkerOK, NewWorker
<1>3. \A t \in Tasks : /\ task[t] \in TaskRec /\ TaskOK(t)
                       /\ task[t].w \in Workers \cup {NoWorker}
                       /\ task[t].todo \subseteq Workers
  BY DEF TypeOK, PoolInv, TaskRec, TaskFields
<1>4. \A t \in Tasks : task[t].w # NoWorker => wk[task[t].w].state # "NONE"
  BY <1>1, <1>3 DEF TaskOK
<1>5. \A p \in Paths : workers[p] \in Workers \cup {NoWorker}
  BY DEF TypeOK
<1>6. \A p \in Paths : workers[p] # NoWorker =>
                         wk[workers[p]].state # "NONE" /\ wk[workers[p]].path = p
  BY <1>1, <1>5 DEF PoolInv, Keyed
<1>7. Registered \subseteq Workers /\ \A w \in Registered : wk[w].state # "NONE"
  BY <1>5, <1>6 DEF Registered
<1>8. created \in Nat /\ NoWorker \notin Workers
  BY DEF TypeOK, Workers, NoWorker
<1> QED
  BY <1>1, <1>2, <1>3, <1>4, <1>5, <1>6, <1>7, <1>8

\* A step that creates no worker and ages every worker keeps WorkerOK.
LEMMA WorkersAge ==
  ASSUME TypeOK, PoolInv, created' = created,
         \A v \in Workers : Ages(wk[v], wk'[v])
  PROVE  \A v \in Workers : WorkerOK(v)'
<1> SUFFICES ASSUME NEW v \in Workers PROVE WorkerOK(v)'
  OBVIOUS
<1>1. WorkerOK(v) /\ wk[v] \in WorkerRec /\ v \in Nat /\ created \in Nat
  BY Basics
<1>2. Ages(wk[v], wk'[v])
  OBVIOUS
<1>3. IF v <= created THEN wk'[v].state # "NONE" ELSE wk'[v] = NewWorker
  BY <1>1, <1>2 DEF WorkerOK, Ages, Later, NewWorker
<1>4. OpenOK(wk'[v])
  BY <1>2 DEF Ages
<1>5. wk'[v].stale # NoWorker => wk'[wk'[v].stale].state = "DEAD"
  <2>1. wk'[v].stale = wk[v].stale /\ wk[v].stale \in Workers \cup {NoWorker}
    BY <1>1, <1>2 DEF Ages, WorkerRec
  <2>2. \A u \in Workers : wk[u].state = "DEAD" => wk'[u].state = "DEAD"
    BY DEF Ages, Later
  <2> QED
    BY <1>1, <2>1, <2>2 DEF WorkerOK
<1> QED
  BY <1>3, <1>4, <1>5 DEF WorkerOK

\* A worker that is called, or whose opening is over, is still so later.
LEMMA TaskKept ==
  ASSUME TypeOK, PoolInv, created' \in Nat, created <= created',
         \A v \in Workers : v <= created => Ages(wk[v], wk'[v]),
         NEW t \in Tasks, Kept(t)
  PROVE  TaskOK(t)' /\ \A w \in Workers : ShutsDown(t, w)' => ShutsDown(t, w)
<1>1. TaskOK(t) /\ task[t] \in TaskRec /\ task[t].w \in Workers \cup {NoWorker}
      /\ task[t].todo \subseteq Workers /\ created \in Nat /\ \A w \in Workers : w \in Nat \ {0}
  BY Basics
<1>2. \A u \in Workers : u <= created =>
        /\ wk[u].state \in {"IDLE", "DEAD"} => wk'[u].state \in {"IDLE", "DEAD"}
        /\ SpawnDone(u) => SpawnDone(u)'
  BY DEF Ages, Later, SpawnDone, Over
<1>3. CASE task'[t] = task[t]
  <2>1. task[t].w # NoWorker => task[t].w \in Workers /\ task[t].w <= created
    BY <1>1 DEF TaskOK
  <2>2. task[t].w <= created' /\ \A w \in task[t].todo : w <= created' /\ w # task[t].w
    BY <1>1, <2>1 DEF TaskOK, NoWorker
  <2> QED
    BY <1>1, <1>2, <1>3, <2>1, <2>2 DEF TaskOK, ShutsDown
<1>4. CASE task'[t] = Idle
  BY <1>1, <1>4, PoolAssumption DEF TaskOK, ShutsDown, Idle, ShutdownOps, CallOps, NoWorker
<1> QED
  BY <1>3, <1>4 DEF Kept

\* A step in which workers progress and nothing is registered.
LEMMA AllProgress ==
  ASSUME TypeOK, Shrinks, \A v \in Workers : Moves(wk[v], wk'[v])
  PROVE  \A v \in Workers : Progresses(v)
<1>1. Registered' \subseteq Registered
  BY DEF Shrinks, Registered, NoWorker
<1> QED
  BY <1>1 DEF Progresses

\* What one step has to satisfy, unless it creates a worker: every worker
\* progresses or is granted, every task is kept or claims what leaves the
\* registry, and no two tasks claim the same.
LEMMA TasksSafe ==
  ASSUME TypeOK, PoolSafe, created' = created, Shrinks,
         \A v \in Workers : Granted(v) \/ Progresses(v),
         \A t \in Tasks : Kept(t) \/ (TaskOK(t)' /\ Claims(t)),
         \A w \in Workers, t, u \in Tasks :
           ShutsDown(t, w)' /\ ShutsDown(u, w)' /\ t # u =>
             ShutsDown(t, w) \/ ShutsDown(u, w)
  PROVE  PoolSafe' /\ LeaseStep
<1> USE DEF PoolSafe
<1>0. LeaseStep
  BY DEF LeaseStep
<1>1. \A v \in Workers : Ages(wk[v], wk'[v])
  BY DEF Granted, Progresses, Moves
<1>2. created' \in Nat /\ created <= created' /\ Registered' \subseteq Registered
      /\ \A p \in Paths : workers[p] \in Workers \cup {NoWorker}
  BY Basics DEF Shrinks, Registered
<1>3. \A v \in Workers : WorkerOK(v)'
  BY <1>1, WorkersAge
<1>4. ASSUME NEW t \in Tasks, Kept(t)
      PROVE  TaskOK(t)' /\ \A w \in Workers : ShutsDown(t, w)' => ShutsDown(t, w)
  BY <1>1, <1>2, <1>4, TaskKept
<1>5. \A t \in Tasks : TaskOK(t)'
  BY <1>4
<1>6. Keyed'
  <2> SUFFICES ASSUME NEW p \in Paths, workers'[p] # NoWorker
               PROVE  workers'[p] <= created' /\ wk'[workers'[p]].path = p
    BY DEF Keyed
  <2>1. workers'[p] = workers[p] /\ workers[p] \in Workers
    BY <1>2 DEF Shrinks
  <2>2. workers[p] <= created /\ wk[workers[p]].path = p
    BY <2>1 DEF PoolInv, Keyed
  <2> QED
    BY <1>1, <2>1, <2>2 DEF Ages
<1>7. Claimed'
  <2> SUFFICES ASSUME NEW t \in Tasks, NEW w \in Workers, ShutsDown(t, w)', w \in Registered'
               PROVE  FALSE
    BY DEF Claimed
  <2>1. ShutsDown(t, w)
    <3>1. CASE Kept(t)
      BY <1>4, <3>1
    <3>2. CASE Claims(t)
      BY <3>2 DEF Claims
    <3> QED
      BY <3>1, <3>2
  <2> QED
    BY <1>2, <2>1 DEF PoolInv, Claimed
<1>8. OneShutdown'
  <2> SUFFICES ASSUME NEW w \in Workers, NEW t \in Tasks, NEW u \in Tasks,
                      ShutsDown(t, w)', ShutsDown(u, w)', t # u
               PROVE  FALSE
    BY DEF OneShutdown
  <2>1. ShutsDown(t, w) \/ w \in Registered
    BY <1>4 DEF Claims
  <2>2. ShutsDown(u, w) \/ w \in Registered
    BY <1>4 DEF Claims
  <2>3. ShutsDown(t, w) \/ ShutsDown(u, w)
    OBVIOUS
  <2> QED
    BY <2>1, <2>2, <2>3 DEF PoolInv, Claimed, OneShutdown
<1>9. NoAttachedSessionLosesItsWorker'
  <2> SUFFICES ASSUME NEW w \in Workers, NEW t \in Requests,
                      ShutsDown(t, w)', task'[t].op # "forceClose"
               PROVE  wk'[w].sessions = {}
    BY DEF NoAttachedSessionLosesItsWorker
  <2>1. t \in Tasks
    BY DEF Tasks
  <2>2. CASE ShutsDown(t, w) /\ task'[t].op = task[t].op
    <3>1. wk[w].sessions = {} /\ w \notin Registered
      BY <2>1, <2>2 DEF NoAttachedSessionLosesItsWorker, PoolInv, Claimed
    <3> QED
      BY <3>1 DEF Granted, Progresses, Moves
  <2>3. CASE wk'[w].sessions = {}
    BY <2>3
  <2>4. Kept(t) => ShutsDown(t, w) /\ task'[t].op = task[t].op
    <3>1. task'[t] # Idle
      BY Basics DEF ShutsDown, Idle, ShutdownOps
    <3> QED
      BY <1>4, <2>1, <3>1 DEF Kept
  <2> QED
    BY <2>1, <2>2, <2>3, <2>4 DEF Claims
<1> QED
  BY <1>0, <1>3, <1>5, <1>6, <1>7, <1>8, <1>9 DEF PoolInv

\* Only task t0 does something new.
LEMMA StepSafe ==
  ASSUME TypeOK, PoolSafe, created' = created, Shrinks,
         \A v \in Workers : Granted(v) \/ Progresses(v),
         NEW t0, \A t \in Tasks : Kept(t) \/ (t = t0 /\ TaskOK(t)' /\ Claims(t))
  PROVE  PoolSafe' /\ LeaseStep
<1>1. \A t \in Tasks, w \in Workers : Kept(t) /\ ShutsDown(t, w)' => ShutsDown(t, w)
  <2> SUFFICES ASSUME NEW t \in Tasks, NEW w \in Workers, Kept(t), ShutsDown(t, w)'
               PROVE  ShutsDown(t, w)
    OBVIOUS
  <2>1. task'[t] # Idle
    BY Basics DEF PoolSafe, ShutsDown, Idle, ShutdownOps
  <2> QED
    BY <2>1 DEF Kept, ShutsDown
<1>2. \A w \in Workers, t, u \in Tasks :
        ShutsDown(t, w)' /\ ShutsDown(u, w)' /\ t # u =>
          ShutsDown(t, w) \/ ShutsDown(u, w)
  BY <1>1
<1> QED
  BY <1>2, TasksSafe

\* The step keeps every task, or ends it.
LEMMA QuietSafe ==
  ASSUME TypeOK, PoolSafe, created' = created, Shrinks,
         \A v \in Workers : Moves(wk[v], wk'[v]),
         \A t \in Tasks : Kept(t)
  PROVE  PoolSafe' /\ LeaseStep
<1>1. \A v \in Workers : Progresses(v)
  BY AllProgress
<1>2. \A t \in Tasks : Kept(t) \/ (t = NoWorker /\ TaskOK(t)' /\ Claims(t))
  OBVIOUS
<1> QED
  BY <1>1, <1>2, StepSafe

-----------------------------------------------------------------------------
(* The ways a step changes wk *)

Exists(w) == w # NoWorker => wk[w].state # "NONE"

Opened(w) == w # NoWorker => wk[w].spawn \notin {"created", "closeStale", "opening"}

LEMMA SelfMoves ==
  ASSUME TypeOK, PoolInv PROVE \A v \in Workers : Moves(wk[v], wk[v])
BY Basics, MovesSelf

LEMMA UpdateMoves ==
  ASSUME TypeOK, PoolInv, NEW W \in WkType, \A v \in Workers : Moves(wk[v], W[v]),
         NEW w, NEW r, w \in Workers => Moves(wk[w], r)
  PROVE  \A v \in Workers : Moves(wk[v], [W EXCEPT ![w] = r][v])
BY DEF WkType

LEMMA WkIsTyped == TypeOK => wk \in WkType /\ task \in TaskType
BY DEF TypeOK, WkType, TaskType

LEMMA CancelMoves ==
  ASSUME TypeOK, PoolInv, NEW w \in Workers \cup {NoWorker}, Exists(w)
  PROVE  \A v \in Workers : /\ Moves(wk[v], CancelSpawn(wk, w)[v])
                            /\ CancelSpawn(wk, w)[v].state = wk[v].state
                            /\ CancelSpawn(wk, w)[v].sessions = wk[v].sessions
<1>1. w \in Workers => /\ Moves(wk[w], Cancelled(wk[w]))
                       /\ Cancelled(wk[w]).state = wk[w].state
                       /\ Cancelled(wk[w]).sessions = wk[w].sessions
  BY Basics, MovesCancelled DEF Exists
<1> QED
  BY <1>1, SelfMoves, WkIsTyped, Basics DEF CancelSpawn, WkType

LEMMA DyingMoves ==
  ASSUME TypeOK, PoolInv, NEW w \in Workers \cup {NoWorker}, Exists(w), Opened(w)
  PROVE  \A v \in Workers : Moves(wk[v], Dying(wk, w)[v])
<1>1. w \in Workers => Moves(wk[w], Ended(wk[w]))
  BY Basics, MovesEnded DEF Exists, Opened
<1> QED
  BY <1>1, SelfMoves, WkIsTyped, UpdateMoves, Basics DEF Dying, WkType

LEMMA CutMoves ==
  ASSUME TypeOK, PoolInv, NEW w \in Workers \cup {NoWorker}, Exists(w)
  PROVE  \A v \in Workers : Moves(wk[v], CutShort(wk, w)[v])
<1> DEFINE C == CancelSpawn(wk, w)
<1>1. C \in WkType
  BY WkIsTyped, CancelSpawnType
<1>2. \A v \in Workers : Moves(wk[v], C[v])
  BY CancelMoves
<1>3. w \in Workers => Moves(wk[w], Ended(C[w]))
  <2> SUFFICES ASSUME w \in Workers PROVE Moves(wk[w], Ended(C[w]))
    OBVIOUS
  <2>1. C[w] = Cancelled(wk[w])
    BY WkIsTyped DEF CancelSpawn, WkType
  <2>2. C[w] \in WorkerRec /\ OpenOK(C[w])
    BY <1>1, <1>2 DEF WkType, Moves, Ages
  <2>3. C[w].spawn \notin {"created", "closeStale", "opening"} /\ C[w].state # "NONE"
    BY <2>1, MovesCancelled, Basics DEF Exists
  <2>4. Moves(C[w], Ended(C[w]))
    BY <2>2, <2>3, MovesEnded
  <2> QED
    BY <1>2, <2>4, MovesTrans
<1> HIDE DEF C
<1>4. CutShort(wk, w) = [C EXCEPT ![w] = Ended(C[w])]
  BY DEF C, CutShort, Dying
<1> QED
  BY <1>1, <1>2, <1>3, <1>4, UpdateMoves, Basics

LiveSet(V) == V \subseteq Workers /\ \A v \in V : wk[v].state # "NONE"

LetsGo(W, V, s) ==
  \A v \in Workers : /\ Moves(wk[v], W[v])
                     /\ W[v].state = wk[v].state
                     /\ v \in V => W[v].sessions = wk[v].sessions \ {s}
                     /\ wk[v].sessions \subseteq W[v].sessions \cup {s}

LEMMA DetachMoves ==
  ASSUME TypeOK, PoolInv, NEW V, LiveSet(V), NEW s
  PROVE  LetsGo(Detach(wk, V, s), V, s)
<1> USE DEF LiveSet
<1>1. \A v \in V : /\ Moves(wk[v], [wk[v] EXCEPT !.sessions = wk[v].sessions \ {s}])
                   /\ [wk[v] EXCEPT !.sessions = wk[v].sessions \ {s}].state = wk[v].state
                   /\ [wk[v] EXCEPT !.sessions = wk[v].sessions \ {s}].sessions
                        = wk[v].sessions \ {s}
  <2> SUFFICES ASSUME NEW v \in V
               PROVE  /\ Moves(wk[v], [wk[v] EXCEPT !.sessions = wk[v].sessions \ {s}])
                      /\ [wk[v] EXCEPT !.sessions = wk[v].sessions \ {s}].state = wk[v].state
                      /\ [wk[v] EXCEPT !.sessions = wk[v].sessions \ {s}].sessions
                           = wk[v].sessions \ {s}
    OBVIOUS
  <2>1. wk[v] \in WorkerRec /\ OpenOK(wk[v]) /\ wk[v].state # "NONE"
    BY Basics
  <2>2. wk[v].sessions \ {s} \subseteq wk[v].sessions
    OBVIOUS
  <2>3. /\ Ages(wk[v], [wk[v] EXCEPT !.sessions = wk[v].sessions \ {s}])
        /\ [wk[v] EXCEPT !.sessions = wk[v].sessions \ {s}].sessions = wk[v].sessions \ {s}
    BY <2>1, MovesSessions
  <2>4. [wk[v] EXCEPT !.sessions = wk[v].sessions \ {s}].state = wk[v].state
    BY <2>1 DEF WorkerRec
  <2> QED
    BY <2>2, <2>3, <2>4 DEF Moves
<1> QED
  BY <1>1, SelfMoves DEF Detach, LetsGo

\* The worker of a task whose shutdown got past awaiting the spawn task.
LEMMA PastAwait ==
  ASSUME TypeOK, PoolInv, NEW t \in Tasks
  PROVE  /\ Exists(task[t].w)
         /\ task[t].op \in CallOps => Opened(task[t].w)
         /\ task[t].pc = "saving" => Opened(task[t].w)
         /\ SpawnDone(task[t].w) => Opened(task[t].w)
         /\ task[t].pc \in {"queued", "sent"} => task[t].op \in CallOps
<1>1. TaskOK(t) /\ task[t] \in TaskRec /\ task[t].w \in Workers \cup {NoWorker}
      /\ (task[t].w # NoWorker => wk[task[t].w].state # "NONE" /\ OpenOK(wk[task[t].w]))
  BY Basics
<1>2. task[t].op \in CallOps => Opened(task[t].w)
  BY <1>1 DEF TaskOK, OpenOK, Opened
<1>3. SpawnDone(task[t].w) => Opened(task[t].w)
  BY <1>1 DEF SpawnDone, Opened
<1>4. task[t].op \in CallOps \cup ShutdownOps \cup {"none"}
  BY <1>1 DEF TaskRec, TaskFields, Ops, CallOps, ShutdownOps
<1>5. task[t].pc = "saving" => task[t].op # "none"
  BY <1>1 DEF TaskOK, Idle
<1>6. task[t].pc = "saving" => Opened(task[t].w)
  BY <1>1, <1>2, <1>3, <1>4, <1>5 DEF TaskOK, Opened
<1> QED
  BY <1>1, <1>2, <1>3, <1>6 DEF Exists, TaskOK

\* A Pop only shrinks the registry, and takes the workers it is for out of it.
LEMMA PopUnregisters ==
  ASSUME TypeOK, PoolInv, NEW V, Pop(V)
  PROVE  Shrinks /\ \A v \in V : v # NoWorker => v \notin Registered'
<1>1. Shrinks
  BY DEF Pop, Shrinks
<1>2. ASSUME NEW v \in V, v # NoWorker, NEW p \in Paths, workers'[p] = v PROVE FALSE
  <2>1. workers[p] = v
    BY <1>1, <1>2 DEF Shrinks
  <2>2. wk[v].path = p
    BY <1>2, <2>1 DEF PoolInv, Keyed
  <2> QED
    BY <1>2, <2>2 DEF Pop
<1> QED
  BY <1>1, <1>2 DEF Registered

-----------------------------------------------------------------------------
(* One lemma per group of actions *)

LEMMA SafeSpawning ==
  ASSUME TypeOK, PoolSafe, NEW w \in Workers, Spawning(w)
  PROVE  PoolSafe' /\ LeaseStep
<1> USE DEF PoolSafe
<1>1. wk \in WkType /\ wk[w] \in WorkerRec /\ OpenOK(wk[w]) /\ WorkerOK(w)
      /\ (wk[w].spawn # "none" => wk[w].state # "NONE")
  BY Basics, WkIsTyped
<1>2. \A v \in Workers : Moves(wk[v], wk[v])
  BY SelfMoves
<1>a. UNCHANGED workers => Shrinks
  BY DEF Shrinks
<1>b. UNCHANGED task => \A t \in Tasks : Kept(t)
  BY DEF Kept
<1>3. CASE SpawnStart(w)
  <2> DEFINE v == wk[w].stale
  <2>1. v \in Workers \cup {NoWorker} /\ (v # NoWorker => wk[v].state = "DEAD")
        /\ wk[w].state = "STARTING"
    BY <1>1, <1>3 DEF WorkerRec, WorkerOK, OpenOK, SpawnStart
  <2>2. Exists(v) /\ Opened(v)
    BY <2>1, Basics DEF Exists, Opened, OpenOK
  <2>3. \A u \in Workers : Moves(wk[u], wk'[u])
    <3>1. CASE v = NoWorker
      <4>1. wk' = [wk EXCEPT ![w] = Launched(wk[w])]
        BY <1>3, <3>1 DEF SpawnStart
      <4>2. Moves(wk[w], Launched(wk[w]))
        BY <1>1, <1>3, MovesLaunched DEF SpawnStart
      <4> QED
        BY <1>1, <1>2, <4>1, <4>2, UpdateMoves
    <3>2. CASE v # NoWorker
      <4>1. Dying(wk, v) \in WkType /\ \A u \in Workers : Moves(wk[u], Dying(wk, v)[u])
        BY <1>1, <2>1, <2>2, DyingMoves, DyingType
      <4>2. Dying(wk, v)[w] = wk[w]
        BY <1>1, <2>1, <3>2 DEF Dying, WkType
      <4>3. wk' = [Dying(wk, v) EXCEPT ![w] = [wk[w] EXCEPT !.spawn = "closeStale"]]
        BY <1>3, <3>2, <4>2 DEF SpawnStart
      <4>4. Moves(wk[w], [wk[w] EXCEPT !.spawn = "closeStale"])
        BY <1>1, <1>3, MovesCloseStale DEF SpawnStart
      <4> QED
        BY <4>1, <4>3, <4>4, UpdateMoves
    <3> QED
      BY <3>1, <3>2
  <2> QED
    BY <1>3, <1>a, <1>b, <2>3, QuietSafe DEF SpawnStart
<1>4. CASE SpawnStaleClosed(w)
  <2> DEFINE v == wk[w].stale
  <2>1. v \in Workers \cup {NoWorker} /\ (v # NoWorker => wk[v].state = "DEAD")
        /\ wk[w].state = "STARTING"
    BY <1>1, <1>4 DEF WorkerRec, WorkerOK, OpenOK, SpawnStaleClosed
  <2> DEFINE W == [wk EXCEPT ![v].client = FALSE]
  <2>2. W \in WkType /\ (v \in Workers => Moves(wk[v], [wk[v] EXCEPT !.client = FALSE]))
    BY <1>1, <2>1, RetireType, MovesClient, Basics DEF WkType, NoWorker
  <2>3. \A u \in Workers : Moves(wk[u], W[u])
    <3>1. W = [wk EXCEPT ![v] = [wk[v] EXCEPT !.client = FALSE]]
      OBVIOUS
    <3> QED
      BY <1>1, <1>2, <2>2, <3>1, UpdateMoves
  <2>4. W[w] = wk[w] /\ wk' = [W EXCEPT ![w] = Launched(W[w])]
    <3>1. v # w
      BY <2>1, Basics
    <3>2. W[w] = wk[w]
      BY <1>1, <3>1 DEF WkType
    <3>3. wk' = [wk EXCEPT ![v].client = FALSE, ![w] = Launched(@)]
      BY <1>4 DEF SpawnStaleClosed
    <3> QED
      BY <3>2, <3>3
  <2>5. Moves(wk[w], Launched(W[w]))
    BY <1>1, <1>4, <2>4, MovesLaunched DEF SpawnStaleClosed
  <2>6. \A u \in Workers : Moves(wk[u], wk'[u])
    BY <2>2, <2>3, <2>4, <2>5, UpdateMoves
  <2> QED
    BY <1>4, <1>a, <1>b, <2>6, QuietSafe DEF SpawnStaleClosed
<1>5. CASE SpawnCommit(w)
  <2>1. \A u \in Workers : Moves(wk[u], wk'[u])
    BY <1>1, <1>2, <1>5, MovesPublished, UpdateMoves DEF SpawnCommit
  <2> QED
    BY <1>5, <1>a, <1>b, <2>1, QuietSafe DEF SpawnCommit
<1>6. CASE SpawnReady(w)
  <2>1. \A u \in Workers : Moves(wk[u], wk'[u])
    BY <1>1, <1>2, <1>6, MovesWatched, UpdateMoves DEF SpawnReady
  <2>2. CASE UNCHANGED task
    BY <1>6, <1>a, <1>b, <2>1, <2>2, QuietSafe DEF SpawnReady
  <2>3. ASSUME NEW t \in Requests,
               task' = [task EXCEPT ![t] = Job("analysis", "queued", w, NoSession)]
        PROVE  PoolSafe' /\ LeaseStep
    <3>1. t \in Tasks /\ task'[t] = Job("analysis", "queued", w, NoSession)
      BY <2>3, WkIsTyped DEF Tasks, TaskType
    <3>2. \A u \in Tasks : Kept(u) \/ u = t
      BY <2>3, WkIsTyped DEF TaskType, Kept
    <3>3. w <= created /\ wk'[w].state \in {"IDLE", "DEAD"} /\ created' = created
          /\ w # NoWorker
      <4>1. wk'[w].state = wk[w].state
        BY <1>1, <1>6 DEF SpawnReady, Watched, WkType, WorkerRec
      <4>2. wk[w].state \in {"IDLE", "DEAD"}
        BY <1>1, <1>6 DEF SpawnReady, OpenOK
      <4>3. w <= created
        BY <1>1, <1>6 DEF WorkerOK, SpawnReady, NewWorker
      <4> QED
        BY <1>6, <4>1, <4>2, <4>3, Basics DEF SpawnReady, NoWorker
    <3>4. TaskOK(t)'
      BY <3>1, <3>3 DEF TaskOK, Job, Idle, CallOps, ShutdownOps
    <3>5. Claims(t)
      BY <3>1, <3>3 DEF Claims, ShutsDown, Job, Idle, ShutdownOps
    <3> QED
      BY <1>6, <1>a, <2>1, <3>2, <3>3, <3>4, <3>5, AllProgress, StepSafe DEF SpawnReady
  <2> QED
    BY <1>6, <2>2, <2>3 DEF SpawnReady
<1>7. CASE SpawnFails(w)
  <2>1. \A u \in Workers : Moves(wk[u], wk'[u])
    BY <1>1, <1>2, <1>7, MovesFailing, UpdateMoves DEF SpawnFails
  <2> QED
    BY <1>7, <1>a, <1>b, <2>1, QuietSafe DEF SpawnFails
<1>8. CASE SpawnMarkFailed(w)
  <2>1. \A u \in Workers : Moves(wk[u], wk'[u])
    BY <1>1, <1>2, <1>8, MovesFailed, UpdateMoves DEF SpawnMarkFailed
  <2> QED
    BY <1>8, <1>a, <1>b, <2>1, QuietSafe DEF SpawnMarkFailed
<1>9. CASE SpawnRemove(w)
  <2>1. \A u \in Workers : Moves(wk[u], wk'[u])
    <3>1. Moves(wk[w], [wk[w] EXCEPT !.spawn = "done"])
      BY <1>1, <1>9, MovesRemoved DEF SpawnRemove
    <3>2. wk' = [wk EXCEPT ![w] = [wk[w] EXCEPT !.spawn = "done"]]
      BY <1>9 DEF SpawnRemove
    <3> QED
      BY <1>1, <1>2, <3>1, <3>2, UpdateMoves
  <2>2. Shrinks
    BY <1>9, PopUnregisters DEF SpawnRemove
  <2> QED
    BY <1>9, <1>b, <2>1, <2>2, QuietSafe DEF SpawnRemove
<1> QED
  BY <1>3, <1>4, <1>5, <1>6, <1>7, <1>8, <1>9 DEF Spawning

LEMMA OpeningFields ==
  ASSUME NEW p, NEW i, NEW s, NEW v
  PROVE  /\ Opening(p, i, s, v).path = p
         /\ Opening(p, i, s, v).state = "STARTING"
         /\ Opening(p, i, s, v).sessions = {s}
         /\ Opening(p, i, s, v).stale = v
         /\ OpenOK(Opening(p, i, s, v))
BY DEF Opening, NewWorker, OpenOK

\* spawn_worker from a value W of wk in which workers have only progressed and
\* no session but s has let go.
LEMMA SafeSpawnWorker ==
  ASSUME TypeOK, PoolSafe, NEW t \in Tasks, NEW s \in Sessions, NEW p \in Paths,
         NEW W \in WkType, SpawnWorker(t, s, p, W),
         \A v \in Workers : /\ Moves(wk[v], W[v]) /\ W[v].state = wk[v].state
                            /\ wk[v].sessions \subseteq W[v].sessions \cup {s}
  PROVE  PoolSafe' /\ LeaseStep
<1> USE DEF PoolSafe
<1> DEFINE old == workers[p]
           alive == old # NoWorker /\ W[old].state # "DEAD"
           stale == IF alive THEN NoWorker ELSE old
<1>1. /\ old \in Workers \cup {NoWorker} /\ created \in Nat
      /\ \A q \in Paths : workers[q] \in Workers \cup {NoWorker}
      /\ \A v \in Workers : v \in Nat \ {0}
  BY Basics
<1>2. \A u \in Tasks : Kept(u)
  BY WkIsTyped DEF SpawnWorker, Kept, TaskType
<1>3. ASSUME alive, wk' = [W EXCEPT ![old] = Attached(W[old], s)],
             UNCHANGED <<workers, idToPath, created>>
      PROVE  PoolSafe' /\ LeaseStep
  <2>1. old \in Workers /\ old \in Registered /\ old \in Registered'
    BY <1>1, <1>3 DEF Registered
  <2>2. Shrinks
    BY <1>3 DEF Shrinks
  <2>3. W[old] \in WorkerRec /\ OpenOK(W[old]) /\ wk[old].state # "NONE"
        /\ Moves(wk[old], W[old]) /\ W[old].state = wk[old].state
    BY <2>1, Basics DEF WkType, Moves, Ages
  <2>4. wk'[old] = [W[old] EXCEPT !.sessions = W[old].sessions \cup {s}]
    BY <1>3, <2>1 DEF WkType, Attached
  <2>5. /\ Ages(W[old], wk'[old])
        /\ wk'[old].sessions = W[old].sessions \cup {s}
        /\ wk'[old].state = W[old].state
    <3>1. /\ Ages(W[old], wk'[old])
          /\ wk'[old].sessions = W[old].sessions \cup {s}
      BY <2>3, <2>4, MovesSessions
    <3>2. wk'[old].state = W[old].state
      BY <2>3, <2>4 DEF WorkerRec
    <3> QED
      BY <3>1, <3>2
  <2>6. Ages(wk[old], wk'[old])
    BY <2>3, <2>5, AgesTrans DEF Moves
  <2>7. wk'[old].sessions = wk[old].sessions \cup {s}
    BY <2>1, <2>3, <2>5 DEF Moves
  <2>8. wk[old].state \in {"STARTING", "IDLE"}
    BY <1>3, <2>1, <2>3, Basics DEF WorkerRec, States
  <2>9. Granted(old)
    BY <2>1, <2>3, <2>5, <2>6, <2>7, <2>8 DEF Granted
  <2>10. \A v \in Workers : v # old => Progresses(v)
    BY <1>3 DEF WkType, Progresses, Registered
  <2> QED
    BY <1>2, <1>3, <2>2, <2>9, <2>10, StepSafe
<1>4. ASSUME workers' = [workers EXCEPT ![p] = NoWorker], wk' = W, UNCHANGED created
      PROVE  PoolSafe' /\ LeaseStep
  <2>1. Shrinks
    BY <1>1, <1>4 DEF Shrinks, TypeOK
  <2> QED
    BY <1>2, <1>4, <2>1, QuietSafe
<1>5. ASSUME ~alive, NEW n \in Nat, n = created + 1, n <= MaxObjects, NEW i \in Ids,
             wk' = [W EXCEPT ![n] = Opening(p, i, s, stale)],
             workers' = [workers EXCEPT ![p] = n], created' = n
      PROVE  PoolSafe' /\ LeaseStep
  <2>1. n \in Workers /\ created' \in Nat /\ created < created'
    BY <1>1, <1>5, PoolAssumption DEF Workers
  <2>2. wk[n] = NewWorker
    BY <1>1, <1>5, <2>1, Basics DEF WorkerOK
  <2>3. wk'[n] = Opening(p, i, s, stale)
    BY <1>5, <2>1 DEF WkType
  <2>4. \A v \in Workers : v # n => wk'[v] = W[v] /\ Moves(wk[v], wk'[v])
    BY <1>5 DEF WkType
  <2>5. \A q \in Paths : workers'[q] = IF q = p THEN n ELSE workers[q]
    BY <1>5 DEF TypeOK
  <2>6. Registered' \subseteq Registered \cup {n} /\ n \in Registered'
    BY <1>1, <2>1, <2>5 DEF Registered, NoWorker
  <2>7. \A v \in Workers : v <= created => v # n
    BY <1>1, <1>5
  <2>8. \A v \in Workers : WorkerOK(v)'
    <3>1. stale # NoWorker => stale # n /\ wk'[stale].state = "DEAD"
      <4>1. stale # NoWorker => stale \in Workers /\ W[stale].state = "DEAD"
        BY <1>1, <1>5
      <4>2. stale # NoWorker => stale # n
        BY <1>1, <2>2, <4>1 DEF NewWorker
      <4> QED
        BY <2>4, <4>1, <4>2
    <3>2. WorkerOK(n)'
      <4>1. wk'[n].state = "STARTING" /\ wk'[n].stale = stale /\ OpenOK(wk'[n])
        BY <2>3, OpeningFields
      <4>2. n <= created'
        BY <1>5
      <4> HIDE DEF stale
      <4> QED
        BY <3>1, <4>1, <4>2 DEF WorkerOK
    <3>3. ASSUME NEW v \in Workers, v # n PROVE WorkerOK(v)'
      <4>1. Ages(wk[v], wk'[v]) /\ WorkerOK(v) /\ wk[v] \in WorkerRec /\ v \in Nat
        BY <2>4, <3>3, Basics DEF Moves
      <4>2. v <= created' <=> v <= created
        BY <1>1, <1>5, <3>3, <4>1
      <4>3. IF v <= created' THEN wk'[v].state # "NONE" ELSE wk'[v] = NewWorker
        BY <4>1, <4>2 DEF WorkerOK, Ages, Later, NewWorker
      <4>4. wk'[v].stale # NoWorker => wk'[wk'[v].stale].state = "DEAD"
        <5> SUFFICES ASSUME wk'[v].stale # NoWorker PROVE wk'[wk'[v].stale].state = "DEAD"
          OBVIOUS
        <5>1. wk'[v].stale = wk[v].stale /\ wk[v].stale \in Workers
          BY <4>1 DEF Ages, WorkerRec
        <5>2. wk[wk[v].stale].state = "DEAD"
          BY <4>1, <5>1 DEF WorkerOK
        <5>3. wk[v].stale # n
          BY <2>2, <5>2 DEF NewWorker
        <5> QED
          BY <2>4, <5>1, <5>2, <5>3 DEF Moves, Ages, Later
      <4> QED
        BY <4>1, <4>3, <4>4 DEF WorkerOK, Ages
    <3> QED
      BY <3>2, <3>3
  <2>9. \A v \in Workers : v <= created => Ages(wk[v], wk'[v])
    BY <2>4, <2>7 DEF Moves
  <2>10. \A u \in Tasks : TaskOK(u)' /\ \A w \in Workers : ShutsDown(u, w)' => ShutsDown(u, w)
    BY <1>1, <1>2, <2>1, <2>9, TaskKept
  <2>11. Keyed'
    <3> SUFFICES ASSUME NEW q \in Paths, workers'[q] # NoWorker
                 PROVE  workers'[q] <= created' /\ wk'[workers'[q]].path = q
      BY DEF Keyed
    <3>1. CASE q = p
      BY <1>1, <1>5, <2>3, <2>5, <3>1, OpeningFields
    <3>2. CASE q # p
      <4>1. workers'[q] = workers[q] /\ workers[q] \in Workers
        BY <1>1, <2>5, <3>2
      <4>2. workers[q] <= created /\ wk[workers[q]].path = q
        BY <4>1 DEF PoolInv, Keyed
      <4> QED
        BY <1>1, <1>5, <2>7, <2>9, <4>1, <4>2 DEF Ages
    <3> QED
      BY <3>1, <3>2
  <2>12. \A u \in Tasks : ~ShutsDown(u, n)
    BY <1>1, <1>5, <2>1, Basics DEF TaskOK, ShutsDown
  <2>13. Claimed'
    BY <2>6, <2>10, <2>12 DEF PoolInv, Claimed
  <2>14. OneShutdown'
    BY <2>10 DEF OneShutdown
  <2>15. NoAttachedSessionLosesItsWorker'
    <3> SUFFICES ASSUME NEW w \in Workers, NEW u \in Requests,
                        ShutsDown(u, w)', task'[u].op # "forceClose"
                 PROVE  wk'[w].sessions = {}
      BY DEF NoAttachedSessionLosesItsWorker
    <3>1. u \in Tasks
      BY DEF Tasks
    <3>2. ShutsDown(u, w) /\ w # n
      BY <2>10, <2>12, <3>1
    <3>3. task'[u] # Idle
      BY <1>1 DEF ShutsDown, Idle, ShutdownOps, NoWorker
    <3>4. wk[w].sessions = {}
      BY <1>2, <3>1, <3>2, <3>3 DEF Kept, NoAttachedSessionLosesItsWorker
    <3> QED
      BY <2>4, <3>2, <3>4 DEF Moves
  <2>16. LeaseStep
    <3>1. Born(n)
      BY <2>2, <2>3, <2>6, OpeningFields DEF Born, NewWorker
    <3>2. \A v \in Workers : v # n => Progresses(v)
      BY <2>4, <2>6 DEF Progresses
    <3> QED
      BY <3>1, <3>2 DEF LeaseStep
  <2> QED
    BY <2>8, <2>10, <2>11, <2>13, <2>14, <2>15, <2>16 DEF PoolInv
<1>6. \/ alive /\ wk' = [W EXCEPT ![old] = Attached(W[old], s)]
               /\ UNCHANGED <<workers, idToPath, created>>
      \/ workers' = [workers EXCEPT ![p] = NoWorker] /\ wk' = W /\ UNCHANGED created
      \/ /\ ~alive /\ created < MaxObjects
         /\ \E i \in Ids : wk' = [W EXCEPT ![created + 1] = Opening(p, i, s, stale)]
         /\ workers' = [workers EXCEPT ![p] = created + 1] /\ created' = created + 1
  BY DEF SpawnWorker
<1>7. created < MaxObjects => created + 1 \in Nat /\ created + 1 <= MaxObjects
  BY <1>1, PoolAssumption
<1> HIDE DEF old, alive, stale
<1> QED
  BY <1>3, <1>4, <1>5, <1>6, <1>7

LEMMA CancelMovesFrom ==
  ASSUME TypeOK, PoolInv, NEW W \in WkType, \A v \in Workers : Moves(wk[v], W[v]),
         NEW w \in Workers, wk[w].state # "NONE"
  PROVE  \A v \in Workers : /\ Moves(wk[v], CancelSpawn(W, w)[v])
                            /\ CancelSpawn(W, w)[v].sessions = W[v].sessions
<1>1. W[w] \in WorkerRec /\ OpenOK(W[w]) /\ W[w].state # "NONE"
  BY Basics DEF WkType, Moves, Ages, Later, WorkerRec, States
<1>2. Moves(W[w], Cancelled(W[w])) /\ Cancelled(W[w]).sessions = W[w].sessions
  BY <1>1, MovesCancelled
<1>3. Moves(wk[w], Cancelled(W[w]))
  BY <1>2, MovesTrans
<1> QED
  BY <1>2, <1>3 DEF CancelSpawn, WkType

LEMMA JobFields ==
  ASSUME NEW op, NEW pc, NEW w, NEW s
  PROVE  /\ Job(op, pc, w, s).op = op /\ Job(op, pc, w, s).pc = pc
         /\ Job(op, pc, w, s).w = w /\ Job(op, pc, w, s).todo = {}
BY DEF Job, Idle

\* Task t starts to call worker w.
StartsCall(t, w, op, pc, s) ==
  /\ w <= created /\ created' = created /\ wk'[w].state \in {"IDLE", "DEAD"}
  /\ op \in CallOps /\ pc \in {"queued", "sent"}
  /\ task' = [task EXCEPT ![t] = Job(op, pc, w, s)]

LEMMA CallStarts ==
  ASSUME TypeOK, PoolInv, NEW t \in Tasks, NEW w \in Workers,
         NEW op, NEW pc, NEW s, StartsCall(t, w, op, pc, s)
  PROVE  TaskOK(t)' /\ Claims(t) /\ \A u \in Tasks : Kept(u) \/ u = t
<1> USE DEF StartsCall
<1>1. task'[t] = Job(op, pc, w, s)
  BY WkIsTyped DEF TaskType
<1>2. \A u \in Tasks : Kept(u) \/ u = t
  BY WkIsTyped DEF TaskType, Kept
<1>3. w # NoWorker
  BY Basics
<1>4. /\ task'[t].op = op /\ task'[t].pc = pc /\ task'[t].w = w /\ task'[t].todo = {}
      /\ op \notin ShutdownOps /\ op # "none"
  BY <1>1, JobFields DEF CallOps, ShutdownOps
<1>5. TaskOK(t)'
  BY <1>3, <1>4 DEF TaskOK
<1>6. Claims(t)
  BY <1>4 DEF Claims, ShutsDown
<1> QED
  BY <1>2, <1>5, <1>6

\* A registered, open worker takes a session.
LEMMA AttachGrants ==
  ASSUME TypeOK, PoolSafe, NEW p \in Paths, NEW w \in Workers, NEW s \in Sessions,
         Resolves(p, w), UNCHANGED workers, wk' = [wk EXCEPT ![w] = Attached(wk[w], s)]
  PROVE  /\ \A v \in Workers : Granted(v) \/ Progresses(v)
         /\ wk'[w].state = "IDLE" /\ w <= created
<1> USE DEF PoolSafe
<1>1. wk[w] \in WorkerRec /\ OpenOK(wk[w]) /\ wk[w].state = "IDLE"
  BY Basics DEF Resolves
<1>2. w \in Registered /\ Registered' = Registered /\ w <= created
  BY DEF Resolves, Registered, PoolInv, Keyed
<1>3. wk'[w] = [wk[w] EXCEPT !.sessions = wk[w].sessions \cup {s}]
  BY WkIsTyped DEF WkType, Attached
<1>4. /\ Ages(wk[w], wk'[w])
      /\ wk'[w].sessions = wk[w].sessions \cup {s}
  BY <1>1, <1>3, MovesSessions
<1>5. wk'[w].state = "IDLE"
  BY <1>1, <1>3 DEF WorkerRec
<1>6. Granted(w)
  BY <1>1, <1>2, <1>4, <1>5 DEF Granted
<1>7. \A v \in Workers : v # w => Progresses(v)
  BY <1>2, SelfMoves, WkIsTyped DEF Progresses, WkType
<1> QED
  BY <1>2, <1>5, <1>6, <1>7

LEMMA SafeClient ==
  ASSUME TypeOK, PoolSafe, NEW t \in Requests, NEW s \in Sessions, NEW p \in Paths,
         \/ OpenDatabase(t, s, p) \/ OpenDetaching(t, s, p)
         \/ ToolCall(t, s, p) \/ ReadResource(t, s, p) \/ StartAnalysis(t, s, p)
         \/ JoinAnalysis(s, p) \/ CloseDetaches(t, s, p) \/ LateCall(t, s, p)
         \/ \E force \in BOOLEAN : SaveDatabase(t, s, p, force) \/ CloseTerminates(t, s, p, force)
  PROVE  PoolSafe' /\ LeaseStep
<1> USE DEF PoolSafe
<1>0. /\ wk \in WkType /\ task \in TaskType /\ t \in Tasks
      /\ \A v \in Workers : Moves(wk[v], wk[v])
  BY WkIsTyped, SelfMoves DEF Tasks
<1>a. UNCHANGED workers => Shrinks
  BY DEF Shrinks
<1>b. \A w \in Workers : Resolves(p, w) => /\ w <= created /\ wk[w].state = "IDLE"
                                            /\ w \in Registered
  BY DEF Resolves, Registered, PoolInv, Keyed
<1>1. CASE OpenDatabase(t, s, p)
  BY <1>0, <1>1, SafeSpawnWorker DEF OpenDatabase
<1>2. CASE OpenDetaching(t, s, p)
  <2> DEFINE held == {w \in Active : s \in wk[w].sessions}
             last == {w \in held : wk[w].sessions = {s}}
             detached == Detach(wk, held, s)
  <2>1. LiveSet(held) /\ held \subseteq Registered
    BY Basics DEF Active, LiveSet
  <2>2. detached \in WkType
    BY <1>0, DetachType
  <2>3. LetsGo(detached, held, s)
    BY <2>1, DetachMoves
  <2>4. \A v \in Registered : v \in Workers /\ v <= created /\ v # NoWorker
    BY Basics DEF Registered, PoolInv, Keyed
  <2>5. ASSUME SpawnWorker(t, s, p, detached) PROVE PoolSafe' /\ LeaseStep
    <3>1. \A v \in Workers : /\ Moves(wk[v], detached[v]) /\ detached[v].state = wk[v].state
                             /\ wk[v].sessions \subseteq detached[v].sessions \cup {s}
      BY <2>3 DEF LetsGo
    <3> HIDE DEF detached
    <3> QED
      BY <1>0, <2>2, <2>5, <3>1, SafeSpawnWorker
  <2>6. ASSUME NEW w \in last, Pop(last), wk' = CancelSpawn(detached, w),
               task' = [task EXCEPT ![t] =
                          [Job("open", "awaitSpawn", w, s)
                             EXCEPT !.todo = last \ {w}, !.path = p]],
               UNCHANGED <<created, ended, phase>>
        PROVE  PoolSafe' /\ LeaseStep
    <3>0. w \in Workers /\ wk[w].state # "NONE" /\ last \subseteq held /\ held \subseteq Workers
      BY <2>1 DEF LiveSet
    <3> DEFINE done == [Job("open", "awaitSpawn", w, s) EXCEPT !.todo = last \ {w}, !.path = p]
    <3>1. \A v \in Workers : /\ Moves(wk[v], wk'[v])
                             /\ wk'[v].sessions = detached[v].sessions
      <4> HIDE DEF detached, held, last
      <4> QED
        BY <2>2, <2>3, <2>6, <3>0, CancelMovesFrom DEF LetsGo
    <3>2. Shrinks /\ \A v \in last : v \in Registered /\ v \notin Registered'
      BY <2>1, <2>4, <2>6, <3>0, PopUnregisters
    <3>3. \A v \in last : wk'[v].sessions = {}
      BY <2>3, <3>0, <3>1 DEF LetsGo
    <3>4. task'[t] = done /\ \A u \in Tasks : Kept(u) \/ u = t
      BY <1>0, <2>6 DEF TaskType, Kept
    <3>5. done.op = "open" /\ done.pc = "awaitSpawn" /\ done.w = w /\ done.todo = last \ {w}
      BY DEF Job, Idle
    <3> HIDE DEF done, last, held, detached
    <3>6. TaskOK(t)'
      BY <2>1, <2>4, <2>6, <3>0, <3>4, <3>5 DEF TaskOK, CallOps, ShutdownOps
    <3>7. Claims(t)
      BY <2>6, <3>2, <3>3, <3>4, <3>5 DEF Claims, ShutsDown
    <3> QED
      BY <1>0, <2>6, <3>1, <3>2, <3>4, <3>6, <3>7, AllProgress, StepSafe
  <2> HIDE DEF held, last, detached
  <2> QED
    BY <1>2, <2>5, <2>6 DEF OpenDetaching, held, last, detached
<1>3. ASSUME NEW w \in Workers, Resolves(p, w), Dispatch(t, s, w)
      PROVE  PoolSafe' /\ LeaseStep
  <2>1. (\A v \in Workers : Granted(v) \/ Progresses(v)) /\ wk'[w].state = "IDLE"
    BY <1>3, AttachGrants DEF Dispatch
  <2>2. TaskOK(t)' /\ Claims(t) /\ \A u \in Tasks : Kept(u) \/ u = t
    <3>1. StartsCall(t, w, "tool", "sent", s)
      BY <1>3, <1>b, <2>1 DEF Dispatch, CallOps, StartsCall
    <3> QED
      BY <1>0, <3>1, CallStarts
  <2> QED
    BY <1>0, <1>3, <1>a, <2>1, <2>2, StepSafe DEF Dispatch
<1>4. CASE StartAnalysis(t, s, p)
  <2> PICK w \in Workers :
         /\ Resolves(p, w)
         /\ task' = [task EXCEPT ![t] = Job("analysis", "queued", w, NoSession)]
         /\ wk' = [wk EXCEPT ![w] = Attached(wk[w], s)] \/ UNCHANGED wk
    BY <1>4 DEF StartAnalysis
  <2>1. (\A v \in Workers : Granted(v) \/ Progresses(v)) /\ wk'[w].state = "IDLE"
    <3>1. CASE wk' = [wk EXCEPT ![w] = Attached(wk[w], s)]
      BY <1>4, <3>1, AttachGrants DEF StartAnalysis
    <3>2. CASE UNCHANGED wk
      BY <1>0, <1>4, <1>a, <1>b, <3>2, AllProgress DEF StartAnalysis
    <3> QED
      BY <3>1, <3>2
  <2>2. TaskOK(t)' /\ Claims(t) /\ \A u \in Tasks : Kept(u) \/ u = t
    <3>1. StartsCall(t, w, "analysis", "queued", NoSession)
      BY <1>4, <1>b, <2>1 DEF StartAnalysis, CallOps, StartsCall
    <3> QED
      BY <1>0, <3>1, CallStarts
  <2> QED
    BY <1>0, <1>4, <1>a, <2>1, <2>2, StepSafe DEF StartAnalysis
<1>5. CASE CloseDetaches(t, s, p)
  <2> PICK w \in Workers : Resolves(p, w) /\ wk' = Detach(wk, {w}, s)
    BY <1>5 DEF CloseDetaches
  <2>1. \A v \in Workers : Moves(wk[v], wk'[v])
    <3>1. LiveSet({w})
      BY <1>b DEF LiveSet
    <3>2. LetsGo(Detach(wk, {w}, s), {w}, s)
      BY <3>1, DetachMoves
    <3> QED
      BY <3>2 DEF LetsGo
  <2> QED
    BY <1>5, <1>a, <2>1, QuietSafe DEF CloseDetaches, Kept
<1>6. ASSUME NEW force \in BOOLEAN, SaveDatabase(t, s, p, force)
      PROVE  PoolSafe' /\ LeaseStep
  <2> PICK w \in Workers : /\ Resolves(p, w)
                           /\ task' = [task EXCEPT ![t] = Job("save", "queued", w, s)]
    BY <1>6 DEF SaveDatabase
  <2>1. TaskOK(t)' /\ Claims(t) /\ \A u \in Tasks : Kept(u) \/ u = t
    <3>1. StartsCall(t, w, "save", "queued", s)
      BY <1>6, <1>b DEF SaveDatabase, CallOps, StartsCall
    <3> QED
      BY <1>0, <3>1, CallStarts
  <2> QED
    BY <1>0, <1>6, <1>a, <2>1, AllProgress, StepSafe DEF SaveDatabase
<1>7. ASSUME NEW force \in BOOLEAN, CloseTerminates(t, s, p, force)
      PROVE  PoolSafe' /\ LeaseStep
  <2> PICK w \in Workers :
         /\ Resolves(p, w)
         /\ force \/ wk[w].sessions \ {s} = {}
         /\ Pop({w})
         /\ wk' = CancelSpawn(Detach(wk, {w}, s), w)
         /\ task' = [task EXCEPT ![t] =
                       Job(CloseOp(s, w, force), "awaitSpawn", w, s)]
    BY <1>7 DEF CloseTerminates
  <2> DEFINE job == Job(CloseOp(s, w, force), "awaitSpawn", w, s)
             D == Detach(wk, {w}, s)
  <2>1. D \in WkType /\ w # NoWorker /\ w \in Registered
        /\ \A v \in Workers : Moves(wk[v], D[v])
        /\ D[w].sessions = wk[w].sessions \ {s}
    <3>1. LiveSet({w})
      BY <1>b DEF LiveSet
    <3>2. D \in WkType
      BY <1>0, DetachType
    <3>3. w # NoWorker /\ w \in Registered
      BY <1>b, Basics
    <3>4. LetsGo(Detach(wk, {w}, s), {w}, s)
      BY <3>1, DetachMoves
    <3> QED
      BY <3>2, <3>3, <3>4 DEF LetsGo
  <2> HIDE DEF D
  <2>2. \A v \in Workers : Moves(wk[v], wk'[v]) /\ wk'[v].sessions = D[v].sessions
    BY <1>b, <2>1, CancelMovesFrom DEF D
  <2>3. Shrinks /\ w \notin Registered'
    BY <2>1, PopUnregisters
  <2>4. task'[t] = job /\ \A u \in Tasks : Kept(u) \/ u = t
    BY <1>0 DEF TaskType, Kept
  <2>5. /\ job.op = IF wk[w].sessions \ {s} # {} THEN "forceClose" ELSE "close"
        /\ job.pc = "awaitSpawn" /\ job.w = w /\ job.todo = {}
    BY DEF Job, Idle, CloseOp
  <2> HIDE DEF job
  <2>6. TaskOK(t)'
    BY <1>7, <1>b, <2>4, <2>5 DEF TaskOK, CallOps, ShutdownOps, CloseTerminates
  <2>7. Claims(t)
    BY <2>1, <2>2, <2>3, <2>4, <2>5 DEF Claims, ShutsDown
  <2> QED
    BY <1>0, <1>7, <2>2, <2>3, <2>4, <2>6, <2>7, AllProgress, StepSafe DEF CloseTerminates
<1>8. CASE JoinAnalysis(s, p)
  <2> PICK w \in Workers : Resolves(p, w) /\ wk' = [wk EXCEPT ![w] = Attached(wk[w], s)]
    BY <1>8 DEF JoinAnalysis
  <2>1. \A v \in Workers : Granted(v) \/ Progresses(v)
    BY <1>8, AttachGrants DEF JoinAnalysis
  <2> QED
    BY <1>8, <1>a, <2>1, StepSafe DEF JoinAnalysis, Kept
<1>9. CASE LateCall(t, s, p)
  <2> PICK w \in Workers :
         /\ Resolves(p, w)
         /\ wk' = [wk EXCEPT ![w] = Attached(wk[w], s)]
         /\ task' = [task EXCEPT ![t] = Job("tool", "sent", w, NoSession)]
    BY <1>9 DEF LateCall
  <2>1. (\A v \in Workers : Granted(v) \/ Progresses(v)) /\ wk'[w].state = "IDLE"
    BY <1>9, AttachGrants DEF LateCall
  <2>2. TaskOK(t)' /\ Claims(t) /\ \A u \in Tasks : Kept(u) \/ u = t
    <3>1. StartsCall(t, w, "tool", "sent", NoSession)
      BY <1>9, <1>b, <2>1 DEF LateCall, CallOps, StartsCall
    <3> QED
      BY <1>0, <3>1, CallStarts
  <2> QED
    BY <1>0, <1>9, <1>a, <2>1, <2>2, StepSafe DEF LateCall
<1> QED
  BY <1>1, <1>2, <1>3, <1>4, <1>5, <1>6, <1>7, <1>8, <1>9 DEF ToolCall, ReadResource

\* Task t goes on with the same worker: a call, or a shutdown past its await.
GoesOn(t) ==
  /\ task'[t].op = task[t].op /\ task'[t].w = task[t].w /\ task'[t].todo = task[t].todo
  /\ task[t].op # "none"
  /\ task'[t].pc \in {"queued", "sent"} <=>
       task[t].op \in CallOps /\ task'[t].pc # "closeClient"
  /\ task[t].op \in ShutdownOps => task[t].w = NoWorker \/ SpawnDone(task[t].w)

LEMMA GoesOnSafe ==
  ASSUME TypeOK, PoolInv, created' = created, \A v \in Workers : Moves(wk[v], wk'[v]),
         NEW t \in Tasks, GoesOn(t)
  PROVE  TaskOK(t)' /\ Claims(t)
<1>1. /\ TaskOK(t) /\ task[t].w \in Workers \cup {NoWorker}
      /\ task[t].todo \subseteq Workers
  BY Basics
<1>2. \A u \in Workers :
        /\ wk[u].state \in {"IDLE", "DEAD"} => wk'[u].state \in {"IDLE", "DEAD"}
        /\ SpawnDone(u) => SpawnDone(u)'
  BY DEF Moves, Ages, Later, SpawnDone, Over
<1>3. TaskOK(t)'
  BY <1>1, <1>2 DEF TaskOK, GoesOn
<1>4. Claims(t)
  BY DEF Claims, ShutsDown, GoesOn
<1> QED
  BY <1>3, <1>4

\* The cancellation of w's analysis ends tasks, but none that shuts w down.
LEMMA AnalysisGone ==
  ASSUME TypeOK, PoolInv, NEW t \in Tasks, NEW w,
         \/ task[t].pc \in {"awaitSpawn", "saving"}
         \/ task[t].op \in ShutdownOps
  PROVE  /\ WithoutAnalysis(task, w)[t] = task[t]
         /\ \A u \in Tasks : WithoutAnalysis(task, w)[u] \in {task[u], Idle}
         /\ task[t].op \in ShutdownOps
<1>1. TaskOK(t) /\ task[t] \in TaskRec
  BY Basics
<1>2. task[t].op \in CallOps \cup ShutdownOps \cup {"none"}
  BY <1>1 DEF TaskRec, TaskFields, Ops, CallOps, ShutdownOps
<1>3. task[t].op \in ShutdownOps
  BY <1>1, <1>2 DEF TaskOK, Idle
<1>4. task[t].op # "analysis"
  BY <1>3 DEF ShutdownOps
<1> QED
  BY <1>3, <1>4 DEF WithoutAnalysis

LEMMA MarkDeadSafe ==
  ASSUME TypeOK, PoolSafe, NEW t \in Tasks, task[t].pc \in {"queued", "sent"},
         MarkDead(t, task[t].w), created' = created
  PROVE  PoolSafe' /\ LeaseStep
<1> DEFINE w == task[t].w
<1>0. PoolInv /\ w \in Workers \cup {NoWorker}
  BY Basics DEF PoolSafe
<1>1. task[t].op \in CallOps /\ Exists(w) /\ Opened(w)
  BY <1>0, PastAwait
<1>2. \A v \in Workers : Moves(wk[v], wk'[v])
  BY <1>0, <1>1, DyingMoves DEF MarkDead
<1>3. Shrinks
  BY <1>0, PopUnregisters DEF MarkDead
<1>4. task' = [task EXCEPT ![t].pc = "closeClient"]
  BY DEF MarkDead
<1>5. GoesOn(t) /\ \A u \in Tasks : Kept(u) \/ u = t
  <2>1. task \in TaskType /\ task[t] \in TaskRec
    BY <1>0, Basics, WkIsTyped
  <2>2. /\ task'[t].op = task[t].op /\ task'[t].w = task[t].w
        /\ task'[t].todo = task[t].todo /\ task'[t].pc = "closeClient"
    BY <1>4, <2>1 DEF TaskType, TaskRec, TaskFields
  <2>3. \A u \in Tasks : Kept(u) \/ u = t
    BY <1>4, <2>1 DEF TaskType, Kept
  <2> QED
    BY <1>1, <2>2, <2>3 DEF GoesOn, CallOps, ShutdownOps
<1>6. TaskOK(t)' /\ Claims(t)
  BY <1>0, <1>2, <1>5, GoesOnSafe
<1> QED
  BY <1>2, <1>3, <1>5, <1>6, AllProgress, StepSafe

LEMMA SafeCalling ==
  ASSUME TypeOK, PoolSafe, NEW t \in Tasks, Calling(t)
  PROVE  PoolSafe' /\ LeaseStep
<1>0. PoolInv /\ task \in TaskType /\ task[t] \in TaskRec
      /\ \A v \in Workers : Moves(wk[v], wk[v])
  BY Basics, SelfMoves, WkIsTyped DEF PoolSafe
<1>1. ASSUME task[t].pc = "queued", task' = [task EXCEPT ![t].pc = "sent"],
             UNCHANGED <<workers, wk, created>>
      PROVE  PoolSafe' /\ LeaseStep
  <2>1. task[t].op \in CallOps
    BY <1>0, <1>1, PastAwait
  <2>2. /\ task'[t].op = task[t].op /\ task'[t].w = task[t].w
        /\ task'[t].todo = task[t].todo /\ task'[t].pc = "sent"
    BY <1>0, <1>1 DEF TaskType, TaskRec, TaskFields
  <2>3. GoesOn(t)
    BY <2>1, <2>2 DEF GoesOn, CallOps, ShutdownOps
  <2>4. TaskOK(t)' /\ Claims(t)
    BY <1>0, <1>1, <2>3, GoesOnSafe
  <2>5. \A u \in Tasks : Kept(u) \/ u = t
    BY <1>0, <1>1 DEF TaskType, Kept
  <2>6. Shrinks
    BY <1>1 DEF Shrinks
  <2> QED
    BY <1>0, <1>1, <2>4, <2>5, <2>6, AllProgress, StepSafe
<1>2. CASE QueuedDispatch(t)
  BY <1>1, <1>2, MarkDeadSafe DEF QueuedDispatch
<1>3. CASE CallReturns(t)
  <2>1. \A u \in Tasks : Kept(u)
    BY <1>0, <1>3 DEF CallReturns, Kept, TaskType
  <2>2. Shrinks
    BY <1>3 DEF CallReturns, Shrinks
  <2> QED
    BY <1>0, <1>3, <2>1, <2>2, QuietSafe DEF CallReturns
<1>4. CASE CallFails(t)
  BY <1>4, MarkDeadSafe DEF CallFails
<1> QED
  BY <1>2, <1>3, <1>4 DEF Calling

\* A shutdown goes on at pc once w's analysis, if it had to be, is cancelled.
ShutsDownAt(t, T, pc) ==
  /\ task[t].pc \in {"awaitSpawn", "saving"} /\ SpawnDone(task[t].w)
  /\ T \in TaskType /\ T[t] = task[t] /\ \A u \in Tasks : T[u] \in {task[u], Idle}
  /\ pc \in {"saving", "closeClient"}
  /\ task' = [T EXCEPT ![t].pc = pc]
  /\ UNCHANGED <<workers, created>>

LEMMA ShutdownGoesOn ==
  ASSUME TypeOK, PoolSafe, NEW t \in Tasks, NEW T, NEW pc, ShutsDownAt(t, T, pc),
         \A v \in Workers : Moves(wk[v], wk'[v])
  PROVE  PoolSafe' /\ LeaseStep
<1> USE DEF ShutsDownAt
<1>0. PoolInv /\ task[t] \in TaskRec /\ task[t].op \in ShutdownOps
  BY Basics, AnalysisGone DEF PoolSafe
<1>1. /\ task'[t].op = task[t].op /\ task'[t].w = task[t].w
      /\ task'[t].todo = task[t].todo /\ task'[t].pc = pc
  BY <1>0 DEF TaskType, TaskRec, TaskFields
<1>2. \A u \in Tasks : Kept(u) \/ u = t
  BY DEF TaskType, Kept
<1>3. GoesOn(t)
  BY <1>0, <1>1 DEF GoesOn, CallOps, ShutdownOps
<1>4. TaskOK(t)' /\ Claims(t)
  BY <1>0, <1>3, GoesOnSafe
<1>5. Shrinks
  BY DEF Shrinks
<1> QED
  BY <1>2, <1>4, <1>5, AllProgress, StepSafe

LEMMA SafeClosing ==
  ASSUME TypeOK, PoolSafe, NEW t \in Tasks, Closing(t)
  PROVE  PoolSafe' /\ LeaseStep
<1> DEFINE w == task[t].w
<1>0. /\ PoolInv /\ task \in TaskType /\ task[t] \in TaskRec /\ wk \in WkType
      /\ w \in Workers \cup {NoWorker} /\ Exists(w) /\ TaskOK(t)
      /\ \A v \in Workers : Moves(wk[v], wk[v])
  BY Basics, SelfMoves, WkIsTyped, PastAwait DEF PoolSafe
<1>1. CASE SpawnAwaited(t)
  <2> DEFINE rest == WithoutAnalysis(task, w)
  <2>1. /\ rest[t] = task[t] /\ \A u \in Tasks : rest[u] \in {task[u], Idle}
    BY <1>0, <1>1, AnalysisGone DEF SpawnAwaited
  <2>2. rest \in TaskType
    BY <1>0, WithoutAnalysisType
  <2>3. \A v \in Workers : Moves(wk[v], Dying(wk, w)[v])
    BY <1>0, <1>1, PastAwait, DyingMoves DEF SpawnAwaited
  <2>4. PICK pc \in {"saving", "closeClient"} :
          /\ task' = [rest EXCEPT ![t].pc = pc]
          /\ UNCHANGED wk \/ wk' = Dying(wk, w)
    BY <1>1 DEF SpawnAwaited
  <2>5. \A v \in Workers : Moves(wk[v], wk'[v])
    BY <1>0, <2>3, <2>4
  <2> HIDE DEF rest
  <2>6. ShutsDownAt(t, rest, pc)
    BY <1>1, <2>1, <2>2, <2>4 DEF SpawnAwaited, ShutsDownAt
  <2> QED
    BY <2>5, <2>6, ShutdownGoesOn
<1>2. CASE SaveEnds(t)
  <2>1. \A v \in Workers : Moves(wk[v], wk'[v])
    BY <1>0, <1>2, PastAwait, DyingMoves DEF SaveEnds
  <2>2. GoesOn(t)
    <3>1. task[t].op \in ShutdownOps
      BY <1>0, <1>2, AnalysisGone DEF SaveEnds
    <3>2. /\ task'[t].op = task[t].op /\ task'[t].w = task[t].w
          /\ task'[t].todo = task[t].todo /\ task'[t].pc = "closeClient"
      BY <1>0, <1>2 DEF SaveEnds, TaskType, TaskRec, TaskFields
    <3> QED
      BY <1>0, <1>2, <3>1, <3>2 DEF GoesOn, TaskOK, SaveEnds, CallOps, ShutdownOps
  <2>3. TaskOK(t)' /\ Claims(t)
    BY <1>0, <1>2, <2>1, <2>2, GoesOnSafe DEF SaveEnds
  <2>4. Shrinks /\ \A u \in Tasks : Kept(u) \/ u = t
    BY <1>0, <1>2 DEF SaveEnds, Shrinks, Kept, TaskType
  <2> QED
    BY <1>2, <2>1, <2>3, <2>4, AllProgress, StepSafe DEF SaveEnds
<1>3. CASE ClientClosed(t)
  <2> DEFINE closed == [wk EXCEPT ![w].client = FALSE]
  <2>1. /\ closed \in WkType
        /\ \A v \in Workers : /\ Moves(wk[v], closed[v]) /\ closed[v].state = wk[v].state
                              /\ closed[v].sessions = wk[v].sessions
    <3>1. w \in Workers => Moves(wk[w], [wk[w] EXCEPT !.client = FALSE])
      BY <1>0, Basics, MovesClient DEF Exists
    <3>2. closed \in WkType
      BY <1>0, RetireType DEF WkType
    <3>3. ASSUME NEW r \in WorkerRec
          PROVE  /\ [r EXCEPT !.client = FALSE].state = r.state
                 /\ [r EXCEPT !.client = FALSE].sessions = r.sessions
      BY DEF WorkerRec
    <3>4. \A v \in Workers :
            /\ wk[v] \in WorkerRec
            /\ closed[v] = IF v = w THEN [wk[v] EXCEPT !.client = FALSE] ELSE wk[v]
      BY <1>0 DEF WkType
    <3> HIDE DEF closed
    <3> QED
      BY <1>0, <3>1, <3>2, <3>3, <3>4
  <2>2. CASE task[t].op # "open" /\ wk' = closed /\ task' = [task EXCEPT ![t] = Idle]
             /\ UNCHANGED <<workers, idToPath, created, ended, phase>>
    <3>1. \A u \in Tasks : Kept(u)
      BY <1>0, <2>2 DEF TaskType, Kept
    <3>2. Shrinks
      BY <2>2 DEF Shrinks
    <3> QED
      BY <2>1, <2>2, <3>1, <3>2, QuietSafe
  <2>3. CASE task[t].op = "open" /\ SpawnWorker(t, task[t].s, task[t].path, closed)
    <3>1. task[t].s \in Sessions /\ task[t].path \in Paths
      BY <1>0, <2>3 DEF TaskRec
    <3>2. \A v \in Workers : /\ Moves(wk[v], closed[v]) /\ closed[v].state = wk[v].state
                             /\ wk[v].sessions \subseteq closed[v].sessions \cup {task[t].s}
      BY <2>1
    <3> HIDE DEF closed
    <3> QED
      BY <2>1, <2>3, <3>1, <3>2, SafeSpawnWorker
  <2>4. ASSUME task[t].op = "open", NEW v \in task[t].todo, wk' = CancelSpawn(closed, v),
               task' = [task EXCEPT ![t] = NowClosing(task[t], v)],
               UNCHANGED <<workers, idToPath, created, ended, phase>>
        PROVE  PoolSafe' /\ LeaseStep
    <3>1. v \in Workers /\ v <= created /\ wk[v].state # "NONE"
      BY <1>0, <2>4, Basics DEF TaskOK
    <3>2. \A u \in Workers : Moves(wk[u], wk'[u])
      <4> HIDE DEF closed
      <4> QED
        BY <1>0, <2>1, <2>4, <3>1, CancelMovesFrom
    <3>3. /\ task'[t].op = "open" /\ task'[t].pc = "awaitSpawn" /\ task'[t].w = v
          /\ task'[t].todo = task[t].todo \ {v}
      BY <1>0, <2>4 DEF NowClosing, TaskType, TaskRec, TaskFields
    <3>4. Shrinks /\ \A u \in Tasks : Kept(u) \/ u = t
      BY <1>0, <2>4 DEF Shrinks, Kept, TaskType
    <3>5. TaskOK(t)'
      BY <1>0, <2>4, <3>1, <3>3 DEF TaskOK, CallOps, ShutdownOps
    <3>6. Claims(t)
      BY <2>4, <3>3 DEF Claims, ShutsDown
    <3> QED
      BY <2>4, <3>2, <3>4, <3>5, <3>6, AllProgress, StepSafe
  <2> HIDE DEF closed
  <2> QED
    BY <1>3, <2>2, <2>3, <2>4 DEF ClientClosed, closed
<1> QED
  BY <1>1, <1>2, <1>3 DEF Closing

LEMMA SafeCancel ==
  ASSUME TypeOK, PoolSafe, NEW t \in Requests, CancelRequest(t)
  PROVE  PoolSafe' /\ LeaseStep
<1> DEFINE w == task[t].w
           shutting == task[t].pc \in {"awaitSpawn", "saving"}
           T == IF shutting THEN WithoutAnalysis(task, w) ELSE task
<1>0. /\ PoolInv /\ t \in Tasks /\ task \in TaskType /\ task[t] \in TaskRec
      /\ w \in Workers \cup {NoWorker} /\ Exists(w) /\ TaskOK(t)
      /\ \A v \in Workers : Moves(wk[v], wk[v])
  BY Basics, SelfMoves, WkIsTyped, PastAwait DEF PoolSafe, Tasks
<1>1. \A v \in Workers : Moves(wk[v], wk'[v])
  BY <1>0, CutMoves DEF CancelRequest
<1>2. Shrinks
  BY DEF CancelRequest, Shrinks
<1>3. T \in TaskType /\ T[t] = task[t] /\ \A u \in Tasks : T[u] \in {task[u], Idle}
  BY <1>0, WithoutAnalysisType, AnalysisGone
<1>4. task' = [T EXCEPT ![t] = LeftBehind(T[t])]
  BY DEF CancelRequest
<1> HIDE DEF T
<1>5. \A u \in Tasks : Kept(u) \/ u = t
  BY <1>3, <1>4 DEF TaskType, Kept
<1>6. task'[t] = LeftBehind(task[t])
  BY <1>0, <1>3, <1>4 DEF TaskType
<1>7. CASE task[t].op = "save"
  <2>1. /\ task'[t].op = task[t].op /\ task'[t].pc = task[t].pc
        /\ task'[t].w = task[t].w /\ task'[t].todo = task[t].todo
    BY <1>0, <1>6, <1>7 DEF LeftBehind, TaskRec, TaskFields
  <2>2. GoesOn(t)
    BY <1>0, <1>7, <2>1 DEF GoesOn, TaskOK, CallOps, ShutdownOps
  <2>3. TaskOK(t)' /\ Claims(t)
    BY <1>0, <1>1, <2>2, GoesOnSafe DEF CancelRequest
  <2> QED
    BY <1>1, <1>2, <1>5, <2>3, AllProgress, StepSafe DEF CancelRequest
<1>8. CASE task[t].op # "save"
  <2>1. \A u \in Tasks : Kept(u)
    BY <1>5, <1>6, <1>8 DEF LeftBehind, Kept
  <2> QED
    BY <1>1, <1>2, <2>1, QuietSafe DEF CancelRequest
<1> QED
  BY <1>7, <1>8

LEMMA SafeQuiet ==
  ASSUME TypeOK, PoolSafe,
         \/ \E s \in Sessions : Disconnect(s) \/ DisconnectUnnoticed(s) \/ Connect(s)
         \/ \E w \in Workers : ProcessDies(w) \/ ProcessReaped(w) \/ DeathWatch(w)
         \/ ShutdownDone
  PROVE  PoolSafe' /\ LeaseStep
<1>0. /\ PoolInv /\ wk \in WkType /\ \A v \in Workers : Moves(wk[v], wk[v])
  BY SelfMoves, WkIsTyped DEF PoolSafe
<1>1. ASSUME NEW s \in Sessions, Disconnect(s) PROVE \A v \in Workers : Moves(wk[v], wk'[v])
  <2>1. LiveSet(Active)
    <3>1. Active \subseteq Registered
      BY DEF Active
    <3> QED
      BY <1>0, <3>1, Basics DEF LiveSet
  <2> QED
    BY <1>0, <1>1, <2>1, DetachMoves DEF Disconnect, DetachAll, LetsGo
<1>2. ASSUME NEW w \in Workers, ProcessDies(w) \/ ProcessReaped(w)
      PROVE  \A v \in Workers : Moves(wk[v], wk'[v])
  <2>1. wk[w] \in WorkerRec /\ OpenOK(wk[w]) /\ wk[w].state # "NONE"
    <3>1. wk[w] \in WorkerRec /\ WorkerOK(w) /\ OpenOK(wk[w]) /\ wk[w].proc # "none"
      BY <1>0, <1>2, Basics DEF ProcessDies, ProcessReaped
    <3>2. NewWorker.proc = "none"
      BY DEF NewWorker
    <3> QED
      BY <1>0, <3>1, <3>2 DEF WorkerOK
  <2>2. Moves(wk[w], [wk[w] EXCEPT !.proc = "down"])
    BY <2>1, MovesProc
  <2>3. wk' = [wk EXCEPT ![w] = [wk[w] EXCEPT !.proc = "down"]]
    BY <1>2 DEF ProcessDies, ProcessReaped
  <2> QED
    BY <1>0, <2>2, <2>3, UpdateMoves
<1>3. ASSUME NEW w \in Workers, DeathWatch(w) PROVE \A v \in Workers : Moves(wk[v], wk'[v])
  <2>1. wk[w] \in WorkerRec /\ OpenOK(wk[w]) /\ wk[w].state # "NONE" /\ wk[w].watched
    <3>1. wk[w] \in WorkerRec /\ WorkerOK(w) /\ OpenOK(wk[w]) /\ wk[w].watched
      BY <1>0, <1>3, Basics DEF DeathWatch
    <3>2. ~NewWorker.watched
      BY DEF NewWorker
    <3> QED
      BY <1>0, <3>1, <3>2 DEF WorkerOK
  <2>2. Moves(wk[w], [wk[w] EXCEPT !.state = "DEAD", !.watched = FALSE])
    BY <2>1, MovesDeathWatch
  <2>3. wk' = [wk EXCEPT ![w] = [wk[w] EXCEPT !.state = "DEAD", !.watched = FALSE]]
    BY <1>3 DEF DeathWatch
  <2> QED
    BY <1>0, <2>2, <2>3, UpdateMoves
<1>4. /\ \A v \in Workers : Moves(wk[v], wk'[v])
      /\ UNCHANGED <<workers, created, task>>
  BY <1>0, <1>1, <1>2, <1>3
  DEF Disconnect, DisconnectUnnoticed, Connect,
      ProcessDies, ProcessReaped, DeathWatch, ShutdownDone
<1>5. Shrinks /\ \A t \in Tasks : Kept(t)
  BY <1>4 DEF Shrinks, Kept
<1> QED
  BY <1>4, <1>5, QuietSafe

LEMMA SafeStopping ==
  ASSUME TypeOK, PoolSafe, Shutdown \/ Stopping
  PROVE  PoolSafe' /\ LeaseStep
<1>0. /\ PoolInv /\ task \in TaskType /\ wk \in WkType /\ created \in Nat
      /\ \A v \in Workers : Moves(wk[v], wk[v])
      /\ \A p \in Paths : p \in Tasks /\ p \notin Requests
  BY Basics, SelfMoves, WkIsTyped, PoolAssumption DEF PoolSafe, Tasks
<1>1. CASE Shutdown
  <2>1. \A t \in Tasks : \/ Kept(t)
                         \/ task'[t] = Job("terminate", "terminate", NoWorker, NoSession)
    BY <1>1 DEF Shutdown, Kept
  <2>2. ASSUME NEW t \in Tasks,
               task'[t] = Job("terminate", "terminate", NoWorker, NoSession)
        PROVE  TaskOK(t)' /\ \A w \in Workers : ~ShutsDown(t, w)'
    <3>1. /\ task'[t].op = "terminate" /\ task'[t].pc = "terminate"
          /\ task'[t].w = NoWorker /\ task'[t].todo = {}
      BY <2>2, JobFields
    <3>2. TaskOK(t)'
      BY <1>0, <1>1, <3>1 DEF TaskOK, CallOps, ShutdownOps, NoWorker, Shutdown
    <3>3. \A w \in Workers : ~ShutsDown(t, w)'
      BY <1>0, <3>1, Basics DEF ShutsDown
    <3> QED
      BY <3>2, <3>3
  <2>3. \A t \in Tasks, w \in Workers : ShutsDown(t, w)' => ShutsDown(t, w)
    <3> SUFFICES ASSUME NEW t \in Tasks, NEW w \in Workers, ShutsDown(t, w)'
                 PROVE  ShutsDown(t, w)
      OBVIOUS
    <3>1. task'[t] # Idle
      BY <1>0, Basics DEF ShutsDown, Idle, ShutdownOps
    <3> QED
      BY <2>1, <2>2, <3>1 DEF Kept, ShutsDown
  <2>4. \A t \in Tasks : Kept(t) \/ (TaskOK(t)' /\ Claims(t))
    BY <2>1, <2>2 DEF Claims
  <2>5. Shrinks /\ \A v \in Workers : Moves(wk[v], wk'[v])
    BY <1>0, <1>1 DEF Shutdown, Shrinks
  <2> QED
    BY <1>1, <2>3, <2>4, <2>5, AllProgress, TasksSafe DEF Shutdown
<1>2. ASSUME NEW p \in Paths, TerminateWorker(p) PROVE PoolSafe' /\ LeaseStep
  <2> DEFINE w == workers[p]
  <2>1. w \in Workers /\ w <= created /\ wk[w].state # "NONE" /\ w \in Registered
    BY <1>0, <1>2, Basics DEF TerminateWorker, PoolInv, Keyed, Registered
  <2>2. \A v \in Workers : Moves(wk[v], wk'[v])
    BY <1>0, <1>2, <2>1, CancelMoves DEF TerminateWorker, Exists
  <2>3. Shrinks /\ w \notin Registered'
    BY <1>0, <1>2, <2>1, PopUnregisters DEF TerminateWorker
  <2>4. /\ task'[p] = Job("terminate", "awaitSpawn", w, NoSession)
        /\ \A u \in Tasks : Kept(u) \/ u = p
    BY <1>0, <1>2 DEF TerminateWorker, TaskType, Kept
  <2>5. /\ task'[p].op = "terminate" /\ task'[p].pc = "awaitSpawn"
        /\ task'[p].w = w /\ task'[p].todo = {}
    BY <2>4, JobFields
  <2>6. created' = created
    BY <1>2 DEF TerminateWorker
  <2> HIDE DEF w
  <2>7. TaskOK(p)' /\ Claims(p)
    BY <1>0, <2>1, <2>3, <2>5, <2>6 DEF TaskOK, CallOps, ShutdownOps, Claims, ShutsDown
  <2> QED
    BY <1>0, <2>2, <2>3, <2>4, <2>6, <2>7, AllProgress, StepSafe
<1>3. CASE AbortShutdown
  <2> DEFINE cut == {task[p].w : p \in {q \in Paths : task[q].pc \in {"awaitSpawn", "saving"}}}
  <2>1. \A v \in Workers : Moves(wk[v], wk'[v])
    <3> SUFFICES ASSUME NEW v \in Workers PROVE Moves(wk[v], wk'[v])
      OBVIOUS
    <3>1. v \in cut \/ v \in Registered => Exists(v)
      BY <1>0, Basics DEF Exists
    <3>2. v \in cut => Moves(wk[v], CutShort(wk, v)[v])
      BY <1>0, <3>1, CutMoves
    <3>3. v \in Registered => Moves(wk[v], CancelSpawn(wk, v)[v])
      BY <1>0, <3>1, CancelMoves
    <3>4. wk'[v] = IF v \in cut THEN CutShort(wk, v)[v]
                   ELSE IF v \in Registered THEN CancelSpawn(wk, v)[v] ELSE wk[v]
      BY <1>3 DEF AbortShutdown
    <3> HIDE DEF cut
    <3> QED
      BY <1>0, <3>2, <3>3, <3>4
  <2>2. Shrinks /\ Registered' = {} /\ created' = created
    BY <1>3 DEF AbortShutdown, Shrinks, Registered
  <2>3. \A t \in Tasks :
          \/ Kept(t)
          \/ /\ t \in Paths /\ workers[t] # NoWorker
             /\ task'[t] = Job("reap", "awaitSpawn", workers[t], NoSession)
    BY <1>3 DEF AbortShutdown, Kept, Tasks
  <2>4. ASSUME NEW t \in Paths, workers[t] # NoWorker,
               task'[t] = Job("reap", "awaitSpawn", workers[t], NoSession)
        PROVE  /\ TaskOK(t)' /\ Claims(t)
               /\ \A w \in Workers : ShutsDown(t, w)' => wk[w].path = t
    <3>1. /\ task'[t].op = "reap" /\ task'[t].pc = "awaitSpawn"
          /\ task'[t].w = workers[t] /\ task'[t].todo = {}
      BY <2>4, JobFields
    <3>2. workers[t] \in Registered /\ workers[t] <= created /\ wk[workers[t]].path = t
      BY <1>0, <2>4 DEF PoolInv, Keyed, Registered
    <3>3. TaskOK(t)'
      BY <2>2, <3>1, <3>2 DEF TaskOK, CallOps, ShutdownOps
    <3>4. Claims(t) /\ \A w \in Workers : ShutsDown(t, w)' => wk[w].path = t
      BY <1>0, <2>2, <3>1, <3>2 DEF Claims, ShutsDown
    <3> QED
      BY <3>3, <3>4
  <2>5. \A w \in Workers, t, u \in Tasks :
          ShutsDown(t, w)' /\ ShutsDown(u, w)' /\ t # u =>
            ShutsDown(t, w) \/ ShutsDown(u, w)
    <3>1. \A t \in Tasks, w \in Workers :
            ShutsDown(t, w)' => ShutsDown(t, w) \/ wk[w].path = t
      <4> SUFFICES ASSUME NEW t \in Tasks, NEW w \in Workers, ShutsDown(t, w)'
                   PROVE  ShutsDown(t, w) \/ wk[w].path = t
        OBVIOUS
      <4>1. task'[t] # Idle
        BY <1>0, Basics DEF ShutsDown, Idle, ShutdownOps
      <4> QED
        BY <2>3, <2>4, <4>1 DEF Kept, ShutsDown
    <3> QED
      BY <3>1
  <2>6. \A t \in Tasks : Kept(t) \/ (TaskOK(t)' /\ Claims(t))
    BY <2>3, <2>4
  <2> QED
    BY <2>1, <2>2, <2>5, <2>6, AllProgress, TasksSafe
<1>4. ASSUME NEW p \in Paths, ForceClose(p) PROVE PoolSafe' /\ LeaseStep
  <2> DEFINE w == task[p].w
             T == WithoutAnalysis(task, w)
  <2>1. w \in Workers \cup {NoWorker} /\ Exists(w) /\ Opened(w)
    BY <1>0, <1>4, Basics, PastAwait DEF ForceClose
  <2>2. \A v \in Workers : Moves(wk[v], wk'[v])
    BY <1>0, <1>4, <2>1, DyingMoves DEF ForceClose
  <2>3. T \in TaskType /\ T[p] = task[p] /\ \A u \in Tasks : T[u] \in {task[u], Idle}
    BY <1>0, <1>4, WithoutAnalysisType, AnalysisGone DEF ForceClose
  <2>4. task' = [T EXCEPT ![p].pc = "closeClient"]
    BY <1>4 DEF ForceClose
  <2> HIDE DEF T
  <2>5. ShutsDownAt(p, T, "closeClient")
    BY <1>4, <2>3, <2>4 DEF ForceClose, ShutsDownAt
  <2> QED
    BY <1>0, <2>2, <2>5, ShutdownGoesOn
<1>5. CASE ShutdownDone
  BY <1>5, SafeQuiet
<1> QED
  BY <1>1, <1>2, <1>3, <1>4, <1>5 DEF Stopping, TerminateMissing, ShutdownDeadline

-----------------------------------------------------------------------------
(* The invariant, and the theorems it gives *)

LEMMA PoolSafeInit == Init => PoolSafe
<1> SUFFICES ASSUME Init PROVE PoolSafe
  OBVIOUS
<1>1. /\ \A p \in Paths : workers[p] = NoWorker
      /\ created = 0
      /\ \A w \in Workers : wk[w] = NewWorker /\ ~(w <= created)
      /\ \A t \in Tasks : task[t] = Idle
  BY PoolAssumption DEF Init, Workers
<1>2. \A t \in Tasks, w \in Workers : ~ShutsDown(t, w)
  BY <1>1 DEF ShutsDown, Idle, ShutdownOps
<1>3. Keyed /\ Claimed /\ OneShutdown /\ NoAttachedSessionLosesItsWorker
  BY <1>1, <1>2 DEF Keyed, Claimed, OneShutdown, NoAttachedSessionLosesItsWorker, Tasks
<1>4. \A w \in Workers : WorkerOK(w)
  <2>1. OpenOK(NewWorker) /\ NewWorker.stale = NoWorker
    BY DEF OpenOK, NewWorker
  <2> QED
    BY <1>1, <2>1 DEF WorkerOK
<1>5. \A t \in Tasks : TaskOK(t)
  BY <1>1 DEF TaskOK, Idle, CallOps, ShutdownOps, NoWorker
<1> QED
  BY <1>3, <1>4, <1>5 DEF PoolSafe, PoolInv

LEMMA PoolSafeNext ==
  ASSUME TypeOK, PoolSafe, Next PROVE PoolSafe' /\ LeaseStep
<1>1. CASE Client
  BY <1>1, SafeClient, SafeCancel, SafeQuiet, SafeStopping DEF Client, Connected
<1>2. CASE \E w \in Workers : Spawning(w)
  BY <1>2, SafeSpawning
<1>3. CASE \E t \in Tasks : Calling(t) \/ Closing(t)
  BY <1>3, SafeCalling, SafeClosing
<1>4. CASE \E w \in Workers : ProcessDies(w) \/ ProcessReaped(w) \/ DeathWatch(w)
  BY <1>4, SafeQuiet
<1>5. CASE Stopping
  BY <1>5, SafeStopping
<1> QED
  BY <1>1, <1>2, <1>3, <1>4, <1>5 DEF Next

LEMMA PoolSafeStutters ==
  ASSUME TypeOK, PoolSafe, UNCHANGED vars PROVE PoolSafe' /\ LeaseStep
<1>1. /\ PoolInv /\ created' = created
      /\ Shrinks /\ \A t \in Tasks : Kept(t)
  BY DEF vars, Shrinks, Kept, PoolSafe
<1>2. \A v \in Workers : Moves(wk[v], wk'[v])
  BY <1>1, SelfMoves DEF vars
<1> QED
  BY <1>1, <1>2, QuietSafe

LEMMA Safe == Spec => [](TypeOK /\ PoolSafe)
<1>1. Init => TypeOK /\ PoolSafe
  BY TypeOKInit, PoolSafeInit
<1>2. TypeOK /\ PoolSafe /\ [Next]_vars => (TypeOK /\ PoolSafe)'
  BY TypeOKNext, PoolSafeNext, PoolSafeStutters
<1> QED
  BY <1>1, <1>2, PTL DEF Spec

\* The registry, the opens and the tasks stay consistent with each other: an
\* entry names a worker by its own path, only a STARTING worker is being opened,
\* and what a task shuts down has left _workers.
THEOREM PoolInvariant == Spec => []PoolInv
<1>1. PoolSafe => PoolInv
  BY DEF PoolSafe
<1> QED
  BY <1>1, Safe, PTL

\* The pop under _lock claims a worker: close_database, detach_all, terminate
\* and force-close never run _shutdown_worker twice for one worker.
THEOREM ShutDownOnce == Spec => []OneShutdown
<1>1. PoolSafe => OneShutdown
  BY DEF PoolSafe
<1> QED
  BY <1>1, Safe, PTL

\* close_for_session and detach_all shut a worker down only when its last
\* session has let go, and no session can attach to it from then on.
THEOREM AttachedSessionsKeepTheirWorkers == Spec => []NoAttachedSessionLosesItsWorker
<1>1. PoolSafe => NoAttachedSessionLosesItsWorker
  BY DEF PoolSafe
<1> QED
  BY <1>1, Safe, PTL

LEMMA StepLeases ==
  ASSUME TypeOK, PoolSafe, [Next]_vars PROVE LeaseStep
BY PoolSafeNext, PoolSafeStutters

\* No late answer of open_database revives a worker marked DEAD meanwhile.
THEOREM DeadStaysDead == Spec => DeadIsFinal
<1>1. LeaseStep => \A w \in Workers : wk[w].state = "DEAD" => wk'[w].state = "DEAD"
  BY DEF LeaseStep, Born, Granted, Progresses, Moves, Ages, Later
<1>2. TypeOK /\ PoolSafe /\ [Next]_vars
        => [\A w \in Workers : wk[w].state = "DEAD" => wk'[w].state = "DEAD"]_vars
  BY <1>1, StepLeases
<1> QED
  BY <1>2, Safe, PTL DEF Spec, DeadIsFinal

LEMMA LeaseInit == Init => Lease!Init
<1> SUFFICES ASSUME Init PROVE Lease!Init
  OBVIOUS
<1>1. \A w \in Workers : wk[w].state = "NONE" /\ wk[w].sessions = {}
  BY DEF Init, NewWorker
<1>2. \A w \in Workers : Life(w) = "none"
  BY <1>1 DEF Life
<1>3. Registered = {}
  BY DEF Init, Registered
<1>4. \A w \in Workers : (w \in Registered) = FALSE
  BY <1>3
<1>5. [w \in Workers |-> Life(w)] = [w \in Workers |-> "none"]
  BY <1>2
<1>6. [w \in Workers |-> w \in Registered] = [w \in Workers |-> FALSE]
  BY <1>4, Zenon
<1>7. [w \in Workers |-> wk[w].sessions] = [w \in Workers |-> {}]
  BY <1>1
<1> QED
  BY <1>5, <1>6, <1>7 DEF Lease!Init

LEMMA LeaseNext ==
  ASSUME TypeOK, PoolInv, LeaseStep PROVE Lease!Next
<1> SUFFICES ASSUME NEW w \in Workers
             PROVE  Lease!Create(w) \/ Lease!Grant(w) \/ Lease!Progress(w)
  BY DEF Lease!Next
<1>1. wk[w] \in WorkerRec
  BY Basics
<1>2. CASE Born(w)
  BY <1>2 DEF Born, Lease!Create, Life
<1>3. CASE Granted(w)
  BY <1>3 DEF Granted, Lease!Grant, Life
<1>4. CASE Progresses(w)
  <2>1. Life(w)' \in Lease!Onward(Life(w))
    BY <1>1, <1>4 DEF Progresses, Moves, Ages, Later, Lease!Onward, Life, WorkerRec, States
  <2> QED
    BY <1>4, <2>1 DEF Progresses, Moves, Lease!Progress
<1> QED
  BY <1>2, <1>3, <1>4 DEF LeaseStep

\* The pool keeps the lease: a session gets hold of a worker only while a client
\* can find it and it has not closed, and a withdrawn worker is never listed again.
THEOREM PoolImplementsLease == Spec => ImplementsLease
<1>1. TypeOK /\ PoolSafe /\ [Next]_vars => [Lease!Next]_(Lease!leaseVars)
  <2> SUFFICES ASSUME TypeOK, PoolSafe, [Next]_vars PROVE Lease!Next
    OBVIOUS
  <2> QED
    BY StepLeases, LeaseNext DEF PoolSafe
<1> QED
  BY <1>1, LeaseInit, Safe, PTL DEF Spec, ImplementsLease, Lease!Spec

-----------------------------------------------------------------------------
(* What an entry tells of its process *)

\* A running process belongs to an open that is under way or to an open worker
\* with its client; the process of a registered worker is torn down only by its
\* own failed open.
UpOK(r) ==
  r.proc = "up" => \/ r.spawn = "opening"
                   \/ r.client /\ r.state = "IDLE" /\ r.spawn \notin {"failing", "removing"}
RegOK(r) ==
  /\ r.state = "IDLE" => r.client
  /\ r.proc = "closing" => r.spawn = "failing" /\ r.state = "STARTING"

\* Sessions that are registered or whose cleanup is manual.
Known == registered \cup Manual

EntryInv ==
  /\ \A w \in Workers : UpOK(wk[w])
  /\ \A w \in Registered : RegOK(wk[w])
  /\ \A w \in Workers : wk[w].stale \notin Registered
  /\ \A t \in Tasks, w \in Workers :
       task[t].pc = "closeClient" /\ task[t].w = w => wk[w].state = "DEAD"
  /\ \A t \in Tasks : task[t].op = "open" => task[t].s \in Known
  /\ \A t \in Tasks : task[t].pc \in {"idle", "terminate"} => task[t].w = NoWorker

\* Every worker of W is so, those of R as registered ones, and none has gained a
\* session outside S.
Sound(W, R, S) ==
  /\ W \in WkType
  /\ \A v \in Workers : /\ OpenOK(W[v]) /\ UpOK(W[v])
                        /\ v \in R => RegOK(W[v])
                        /\ W[v].sessions \subseteq wk[v].sessions \cup S

LEMMA SoundNow ==
  ASSUME TypeOK, PoolInv, EntryInv, NEW S PROVE Sound(wk, Registered, S)
BY Basics, WkIsTyped DEF Sound, EntryInv

LEMMA SoundLess ==
  ASSUME NEW W, NEW R, NEW S, NEW Q, Sound(W, R, S), Q \subseteq R PROVE Sound(W, Q, S)
BY DEF Sound

LEMMA SoundUpdate ==
  ASSUME NEW W, NEW R, NEW S, Sound(W, R, S), NEW w,
         NEW r, w \in Workers => /\ r \in WorkerRec /\ OpenOK(r) /\ UpOK(r)
                                 /\ w \in R => RegOK(r)
                                 /\ r.sessions \subseteq wk[w].sessions \cup S
  PROVE  Sound([W EXCEPT ![w] = r], R, S)
<1>1. \A v \in Workers : [W EXCEPT ![w] = r][v] = IF v = w THEN r ELSE W[v]
  BY DEF Sound, WkType
<1>2. [W EXCEPT ![w] = r] \in WkType
  BY DEF Sound, WkType
<1> QED BY <1>1, <1>2 DEF Sound

LEMMA CancelledUp ==
  ASSUME NEW r \in WorkerRec, OpenOK(r), UpOK(r)
  PROVE  /\ OpenOK(Cancelled(r)) /\ UpOK(Cancelled(r))
         /\ Cancelled(r).spawn \notin {"created", "closeStale", "opening"}
         /\ Cancelled(r).sessions = r.sessions
BY DEF OpenOK, UpOK, Cancelled, Unwind, WorkerRec, SpawnPCs, Procs, States

LEMMA EndedUp ==
  ASSUME NEW r \in WorkerRec, OpenOK(r), UpOK(r),
         r.spawn \notin {"created", "closeStale", "opening"}
  PROVE  /\ OpenOK(Ended(r)) /\ UpOK(Ended(r)) /\ Ended(r).sessions = r.sessions
BY DEF OpenOK, UpOK, Ended, WorkerRec, SpawnPCs, Procs, States

LEMMA SoundCancel ==
  ASSUME NEW W, NEW R, NEW S, Sound(W, R, S), NEW w, w \notin R
  PROVE  /\ Sound(CancelSpawn(W, w), R, S)
         /\ w \in Workers => CancelSpawn(W, w)[w].spawn \notin {"created", "closeStale", "opening"}
<1>1. w \in Workers => W[w] \in WorkerRec /\ OpenOK(W[w]) /\ UpOK(W[w])
                       /\ W[w].sessions \subseteq wk[w].sessions \cup S
  BY DEF Sound, WkType
<1>2. w \in Workers => Cancelled(W[w]) \in WorkerRec
  BY <1>1, CancelledType
<1>3. Sound([W EXCEPT ![w] = Cancelled(W[w])], R, S)
  BY <1>1, <1>2, CancelledUp, SoundUpdate
<1>4. CancelSpawn(W, w) = [W EXCEPT ![w] = Cancelled(W[w])]
  BY DEF CancelSpawn
<1>5. w \in Workers => CancelSpawn(W, w)[w] = Cancelled(W[w])
  BY <1>4 DEF Sound, WkType
<1> QED BY <1>1, <1>3, <1>4, <1>5, CancelledUp

LEMMA SoundDying ==
  ASSUME NEW W, NEW R, NEW S, Sound(W, R, S), NEW w, w \notin R,
         w \in Workers => W[w].spawn \notin {"created", "closeStale", "opening"}
  PROVE  Sound(Dying(W, w), R, S)
<1>1. w \in Workers => W[w] \in WorkerRec /\ OpenOK(W[w]) /\ UpOK(W[w])
                       /\ W[w].sessions \subseteq wk[w].sessions \cup S
  BY DEF Sound, WkType
<1>2. w \in Workers => Ended(W[w]) \in WorkerRec
  BY <1>1, EndedType
<1>3. Sound([W EXCEPT ![w] = Ended(W[w])], R, S)
  BY <1>1, <1>2, EndedUp, SoundUpdate
<1> QED BY <1>3 DEF Dying

LEMMA SoundCut ==
  ASSUME NEW W, NEW R, NEW S, Sound(W, R, S), NEW w, w \notin R
  PROVE  Sound(CutShort(W, w), R, S)
BY SoundCancel, SoundDying DEF CutShort

\* Fields the two conditions do not look at.
LEMMA SessionsUp ==
  ASSUME NEW r \in WorkerRec, OpenOK(r), UpOK(r), NEW X
  PROVE  LET q == [r EXCEPT !.sessions = X]
         IN  OpenOK(q) /\ UpOK(q) /\ (RegOK(r) => RegOK(q)) /\ q.sessions = X
BY DEF OpenOK, UpOK, RegOK, WorkerRec

LEMMA SoundDetach ==
  ASSUME NEW W, NEW R, NEW S, Sound(W, R, S), NEW V, NEW s, V \subseteq Workers
  PROVE  Sound(Detach(W, V, s), R, S)
<1>1. Detach(W, V, s) \in WkType
  BY DetachType DEF Sound
<1>2. ASSUME NEW v \in Workers
      PROVE  LET q == Detach(W, V, s)[v]
             IN  /\ OpenOK(q) /\ UpOK(q) /\ (v \in R => RegOK(q))
                 /\ q.sessions \subseteq W[v].sessions
  <2>1. Detach(W, V, s)[v] =
          IF v \in V THEN [W[v] EXCEPT !.sessions = W[v].sessions \ {s}] ELSE W[v]
    BY DEF Detach
  <2>2. W[v] \in WorkerRec /\ OpenOK(W[v]) /\ UpOK(W[v]) /\ (v \in R => RegOK(W[v]))
    BY DEF Sound, WkType
  <2>3. CASE v \in V
    <3> DEFINE q == [W[v] EXCEPT !.sessions = W[v].sessions \ {s}]
    <3>1. OpenOK(q) /\ UpOK(q) /\ (RegOK(W[v]) => RegOK(q))
          /\ q.sessions = W[v].sessions \ {s}
      BY <2>2, SessionsUp
    <3> QED BY <2>1, <2>2, <2>3, <3>1
  <2>4. CASE v \notin V
    BY <2>1, <2>2, <2>4
  <2> QED BY <2>3, <2>4
<1> QED BY <1>1, <1>2 DEF Sound

LEMMA SoundAttach ==
  ASSUME NEW W, NEW R, NEW S, Sound(W, R, S), NEW w, NEW s \in Sessions, s \in S
  PROVE  Sound([W EXCEPT ![w] = Attached(W[w], s)], R, S)
<1>1. w \in Workers => /\ W[w] \in WorkerRec /\ OpenOK(W[w]) /\ UpOK(W[w])
                       /\ w \in R => RegOK(W[w])
                       /\ W[w].sessions \subseteq wk[w].sessions \cup S
  BY DEF Sound, WkType
<1>2. Attached(W[w], s) = [W[w] EXCEPT !.sessions = W[w].sessions \cup {s}]
  BY DEF Attached
<1> DEFINE q == [W[w] EXCEPT !.sessions = W[w].sessions \cup {s}]
<1>3. w \in Workers => q \in WorkerRec
  BY <1>1 DEF WorkerRec
<1>4. w \in Workers => /\ OpenOK(q) /\ UpOK(q) /\ (RegOK(W[w]) => RegOK(q))
                       /\ q.sessions \subseteq wk[w].sessions \cup S
  BY <1>1, SessionsUp
<1> HIDE DEF q
<1>5. Sound([W EXCEPT ![w] = q], R, S)
  BY <1>1, <1>3, <1>4, SoundUpdate
<1> QED BY <1>2, <1>5 DEF q

\* A DEAD worker's client is dropped.
LEMMA SoundRetire ==
  ASSUME NEW W, NEW R, NEW S, Sound(W, R, S), NEW w,
         w \in Workers => W[w].state = "DEAD"
  PROVE  Sound([W EXCEPT ![w].client = FALSE], R, S)
<1> DEFINE q == [W[w] EXCEPT !.client = FALSE]
<1>1. w \in Workers => /\ W[w] \in WorkerRec /\ OpenOK(W[w]) /\ UpOK(W[w])
                       /\ w \in R => RegOK(W[w])
                       /\ W[w].sessions \subseteq wk[w].sessions \cup S
  BY DEF Sound, WkType
<1>2. w \in Workers => /\ q \in WorkerRec /\ OpenOK(q) /\ UpOK(q) /\ (RegOK(W[w]) => RegOK(q))
                       /\ q.sessions = W[w].sessions
  BY <1>1 DEF OpenOK, UpOK, RegOK, WorkerRec
<1>3. Sound([W EXCEPT ![w] = q], R, S)
  BY <1>1, <1>2, SoundUpdate
<1> QED BY <1>3

\* A new worker n is listed at path p, while there is room for it.
Enrolled(n, p) ==
  /\ HasRoom
  /\ n = created + 1 /\ created' = n
  /\ workers' = [workers EXCEPT ![p] = n]
  /\ wk'[n].path = p
  /\ wk'[n].stale \notin Registered'

RegistryStep == Shrinks \/ \E n \in Workers, p \in Paths : Enrolled(n, p)

LEMMA OpeningUp ==
  ASSUME NEW p \in Paths, NEW i \in Ids, NEW s \in Sessions, NEW v \in Workers \cup {NoWorker}
  PROVE  LET q == Opening(p, i, s, v)
         IN  /\ q \in WorkerRec /\ OpenOK(q) /\ UpOK(q) /\ RegOK(q) /\ q.sessions = {s}
             /\ q.path = p /\ q.stale = v
BY DEF Opening, NewWorker, OpenOK, UpOK, RegOK, WorkerRec, States, Procs, SpawnPCs

LEMMA SoundSpawnWorker ==
  ASSUME TypeOK, PoolSafe, NEW t \in Tasks, NEW s \in Sessions, NEW p \in Paths,
         NEW W, SpawnWorker(t, s, p, W), Sound(W, Registered, Known'), s \in Known'
  PROVE  Sound(wk', Registered', Known') /\ RegistryStep
<1> USE DEF PoolSafe
<1> DEFINE old == workers[p]
           alive == old # NoWorker /\ W[old].state # "DEAD"
           stale == IF alive THEN NoWorker ELSE old
<1>1. /\ old \in Workers \cup {NoWorker} /\ created \in Nat
      /\ \A q \in Paths : workers[q] \in Workers \cup {NoWorker}
      /\ \A v \in Workers : v \in Nat \ {0}
  BY Basics
<1>2. ASSUME wk' = [W EXCEPT ![old] = Attached(W[old], s)], UNCHANGED workers
      PROVE  Sound(wk', Registered', Known') /\ RegistryStep
  <2>1. Registered' = Registered /\ Shrinks
    BY <1>2 DEF Registered, Shrinks
  <2> QED BY <1>2, <2>1, SoundAttach DEF RegistryStep
<1>3. ASSUME workers' = [workers EXCEPT ![p] = NoWorker], wk' = W
      PROVE  Sound(wk', Registered', Known') /\ RegistryStep
  <2>1. Shrinks /\ Registered' \subseteq Registered
    BY <1>1, <1>3 DEF Shrinks, TypeOK, Registered
  <2> QED BY <1>3, <2>1, SoundLess DEF RegistryStep
<1>4. ASSUME HasRoom, NEW n \in Workers, n = created + 1, NEW i \in Ids,
             wk' = [W EXCEPT ![n] = Opening(p, i, s, stale)],
             workers' = [workers EXCEPT ![p] = n], created' = n
      PROVE  Sound(wk', Registered', Known') /\ RegistryStep
  <2>1. stale \in Workers \cup {NoWorker}
    BY <1>1
  <2>2. \A q \in Paths : workers'[q] = IF q = p THEN n ELSE workers[q]
    BY <1>4 DEF TypeOK
  <2>3. Registered' \subseteq Registered \cup {n}
    BY <1>1, <2>2 DEF Registered
  <2>4. n \notin Registered
    <3>1. \A q \in Paths : workers[q] # NoWorker => workers[q] <= created
      BY DEF PoolInv, Keyed
    <3> QED BY <1>1, <1>4, <3>1 DEF Registered
  <2>5. Sound(W, Registered', Known') \/ n \in Registered'
    BY <2>3, SoundLess
  <2>6. Sound(wk', Registered \cup {n}, Known')
    <3> DEFINE r == Opening(p, i, s, stale)
    <3>1. r \in WorkerRec /\ OpenOK(r) /\ UpOK(r) /\ RegOK(r) /\ r.sessions = {s}
      BY <2>1, OpeningUp
    <3> HIDE DEF r
    <3>2. Sound([W EXCEPT ![n] = r], Registered, Known')
      BY <3>1, SoundUpdate
    <3>3. wk' = [W EXCEPT ![n] = r] /\ wk'[n] = r
      BY <1>4 DEF r, Sound, WkType
    <3> QED BY <3>1, <3>2, <3>3 DEF Sound
  <2>7. wk'[n].path = p /\ wk'[n].stale = stale
    <3>1. wk'[n] = Opening(p, i, s, stale)
      BY <1>4 DEF Sound, WkType
    <3> QED BY <2>1, <3>1, OpeningUp
  <2>8. stale \notin Registered'
    <3> SUFFICES ASSUME stale \in Registered' PROVE FALSE
      OBVIOUS
    <3>1. PICK q \in Paths : workers'[q] = stale /\ stale # NoWorker
      BY DEF Registered
    <3>2. stale = old /\ stale # n
      <4>1. stale = old
        BY <3>1
      <4>2. old # NoWorker => old <= created
        BY DEF PoolInv, Keyed
      <4> QED BY <1>1, <1>4, <3>1, <4>1, <4>2
    <3>3. workers[q] = old /\ q # p
      BY <2>2, <3>1, <3>2
    <3>4. wk[old].path = q /\ wk[old].path = p
      BY <3>1, <3>2, <3>3 DEF PoolInv, Keyed
    <3> QED BY <3>3, <3>4
  <2>9. Enrolled(n, p)
    BY <1>4, <2>7, <2>8 DEF Enrolled
  <2> QED BY <2>3, <2>6, <2>9, SoundLess DEF RegistryStep
<1>5. \/ wk' = [W EXCEPT ![old] = Attached(W[old], s)] /\ UNCHANGED workers
      \/ workers' = [workers EXCEPT ![p] = NoWorker] /\ wk' = W
      \/ /\ HasRoom /\ created < MaxObjects
         /\ \E i \in Ids : wk' = [W EXCEPT ![created + 1] = Opening(p, i, s, stale)]
         /\ workers' = [workers EXCEPT ![p] = created + 1] /\ created' = created + 1
  BY DEF SpawnWorker
<1>6. created < MaxObjects => created + 1 \in Workers
  BY <1>1, PoolAssumption DEF Workers
<1> HIDE DEF old, alive, stale
<1> QED BY <1>2, <1>3, <1>4, <1>5, <1>6

-----------------------------------------------------------------------------
\* Records as the steps of a spawn leave them.
Calm(r, q) ==
  /\ q \in WorkerRec /\ OpenOK(q) /\ UpOK(q)
  /\ RegOK(r) => RegOK(q)
  /\ q.sessions = r.sessions

LEMMA CalmSteps ==
  ASSUME NEW r \in WorkerRec, OpenOK(r), UpOK(r)
  PROVE  /\ r.spawn \in {"created", "closeStale"} => Calm(r, Launched(r))
         /\ r.spawn = "created" => Calm(r, [r EXCEPT !.spawn = "closeStale"])
         /\ r.spawn = "opening" => Calm(r, Published(r)) /\ Calm(r, Failing(r))
         /\ r.spawn = "committed" => Calm(r, Watched(r))
         /\ r.spawn = "failing" /\ r.proc # "closing" => Calm(r, Failed(r))
         /\ r.spawn = "removing" /\ r.proc # "closing" => Calm(r, [r EXCEPT !.spawn = "done"])
         /\ r.proc # "none" => Calm(r, [r EXCEPT !.proc = "down"])
         /\ r.watched /\ r.proc = "down" =>
              Calm(r, [r EXCEPT !.state = "DEAD", !.watched = FALSE])
<1> USE DEF Calm, OpenOK, UpOK, RegOK, WorkerRec, States, Procs, SpawnPCs, Unwind
<1>1. r.spawn \in {"created", "closeStale"} => Calm(r, Launched(r))
  BY DEF Launched
<1>2. r.spawn = "created" => Calm(r, [r EXCEPT !.spawn = "closeStale"])
  OBVIOUS
<1>3. r.spawn = "opening" => Calm(r, Published(r))
  BY DEF Published
<1>4. r.spawn = "opening" => Calm(r, Failing(r))
  BY DEF Failing
<1>5. r.spawn = "committed" => Calm(r, Watched(r))
  BY DEF Watched
<1>6. r.spawn = "failing" /\ r.proc # "closing" => Calm(r, Failed(r))
  BY DEF Failed
<1>7. r.spawn = "removing" /\ r.proc # "closing" => Calm(r, [r EXCEPT !.spawn = "done"])
  OBVIOUS
<1>8. r.proc # "none" => Calm(r, [r EXCEPT !.proc = "down"])
  OBVIOUS
<1>9. r.watched /\ r.proc = "down" =>
        Calm(r, [r EXCEPT !.state = "DEAD", !.watched = FALSE])
  OBVIOUS
<1> HIDE DEF Calm, OpenOK, UpOK, RegOK, WorkerRec, States, Procs, SpawnPCs, Unwind
<1> QED BY <1>1, <1>2, <1>3, <1>4, <1>5, <1>6, <1>7, <1>8, <1>9

LEMMA SoundCalm ==
  ASSUME NEW W, NEW R, NEW S, Sound(W, R, S), NEW w, NEW r,
         w \in Workers => Calm(W[w], r)
  PROVE  Sound([W EXCEPT ![w] = r], R, S)
<1>1. w \in Workers => /\ r \in WorkerRec /\ OpenOK(r) /\ UpOK(r)
                       /\ w \in R => RegOK(r)
                       /\ r.sessions \subseteq wk[w].sessions \cup S
  BY DEF Sound, Calm
<1> QED BY <1>1, SoundUpdate

\* A step of a worker's own that leaves registry and tasks alone, but for the
\* analysis task SpawnReady may start.
TaskFine(r) ==
  /\ \A w \in Workers : r.pc = "closeClient" /\ r.w = w => wk'[w].state = "DEAD"
  /\ r.op = "open" => r.s \in Known'
  /\ r.pc \in {"idle", "terminate"} => r.w = NoWorker
Tasked == \A t \in Tasks : Kept(t) \/ TaskFine(task'[t])
Leaves ==
  /\ \A t \in Tasks : task[t].s \in Known => task[t].s \in Known'
  /\ \A w \in Active : wk'[w].sessions \cap Known \subseteq Known'

EntryStep == Sound(wk', Registered', Known') /\ RegistryStep /\ Tasked /\ Leaves

LEMMA UnchangedRegistry ==
  ASSUME UNCHANGED workers PROVE Registered' = Registered /\ RegistryStep
BY DEF Registered, RegistryStep, Shrinks

LEMMA KeepsSessions ==
  ASSUME Known \subseteq Known' PROVE Leaves
BY DEF Leaves

LEMMA JobFine ==
  ASSUME NEW op, NEW pc, NEW w, NEW s, op # "open",
         pc \notin {"closeClient", "idle", "terminate"}
  PROVE  TaskFine(Job(op, pc, w, s))
BY DEF TaskFine, Job, Idle

LEMMA EntrySpawning ==
  ASSUME TypeOK, PoolSafe, EntryInv, NEW w \in Workers, Spawning(w)
  PROVE  EntryStep
<1> USE DEF PoolSafe
<1>1. wk[w] \in WorkerRec /\ OpenOK(wk[w]) /\ UpOK(wk[w]) /\ WorkerOK(w)
      /\ wk \in WkType /\ task \in TaskType
  BY Basics, WkIsTyped DEF EntryInv
<1>2. Sound(wk, Registered, Known)
  BY SoundNow
<1>3. ASSUME UNCHANGED <<workers, registered>>, Tasked, Sound(wk', Registered, Known)
      PROVE  EntryStep
  BY <1>3, UnchangedRegistry, KeepsSessions DEF EntryStep, Known
<1>4. UNCHANGED task => Tasked
  BY DEF Tasked, Kept
<1>5. CASE SpawnStart(w)
  <2> DEFINE v == wk[w].stale
  <2>1. v \notin Registered
    BY DEF EntryInv
  <2>2. CASE v = NoWorker
    <3>1. wk' = [wk EXCEPT ![w] = Launched(wk[w])]
      BY <1>5, <2>2 DEF SpawnStart
    <3>2. Calm(wk[w], Launched(wk[w]))
      BY <1>1, <1>5, CalmSteps DEF SpawnStart
    <3>3. Sound(wk', Registered, Known)
      BY <1>2, <3>1, <3>2, SoundCalm
    <3> QED BY <1>3, <1>4, <1>5, <3>3 DEF SpawnStart
  <2>3. CASE v # NoWorker
    <3>1. v \in Workers /\ wk[v].state = "DEAD" /\ v # w
      BY <1>1, <1>5, <2>3 DEF WorkerOK, OpenOK, WorkerRec, SpawnStart
    <3>2. OpenOK(wk[v])
      BY <3>1, Basics
    <3>3. wk[v].spawn \notin {"created", "closeStale", "opening"}
      BY <3>1, <3>2 DEF OpenOK
    <3>4. Sound(Dying(wk, v), Registered, Known)
      BY <1>2, <2>1, <3>3, SoundDying
    <3>5. Dying(wk, v)[w] = wk[w]
      BY <1>1, <3>1 DEF Dying, WkType
    <3>6. wk' = [Dying(wk, v) EXCEPT ![w] = [wk[w] EXCEPT !.spawn = "closeStale"]]
      BY <1>5, <2>3, <3>5 DEF SpawnStart
    <3>7. Calm(wk[w], [wk[w] EXCEPT !.spawn = "closeStale"])
      BY <1>1, <1>5, CalmSteps DEF SpawnStart
    <3>8. Sound(wk', Registered, Known)
      BY <3>4, <3>5, <3>6, <3>7, SoundCalm
    <3> QED BY <1>3, <1>4, <1>5, <3>8 DEF SpawnStart
  <2> QED BY <2>2, <2>3
<1>6. CASE SpawnStaleClosed(w)
  <2> DEFINE v == wk[w].stale
             W == [wk EXCEPT ![v].client = FALSE]
  <2>1. v \in Workers => wk[v].state = "DEAD"
    <3>1. NoWorker \notin Workers
      BY Basics
    <3> QED BY <1>1, <3>1 DEF WorkerOK
  <2>2. v # w
    BY <1>1, <1>6, <2>1 DEF OpenOK, SpawnStaleClosed
  <2>3. Sound(W, Registered, Known)
    BY <1>2, <2>1, SoundRetire
  <2>4. W[w] = wk[w]
    BY <1>1, <2>2 DEF WkType
  <2>5. wk' = [W EXCEPT ![w] = Launched(wk[w])]
    <3>1. wk' = [wk EXCEPT ![v].client = FALSE, ![w] = Launched(@)]
      BY <1>6 DEF SpawnStaleClosed
    <3> QED BY <2>4, <3>1
  <2>6. Calm(wk[w], Launched(wk[w]))
    BY <1>1, <1>6, CalmSteps DEF SpawnStaleClosed
  <2> HIDE DEF W
  <2>7. Sound(wk', Registered, Known)
    BY <2>3, <2>4, <2>5, <2>6, SoundCalm
  <2> QED BY <1>3, <1>4, <1>6, <2>7 DEF SpawnStaleClosed
<1>7. ASSUME NEW r, Calm(wk[w], r), wk' = [wk EXCEPT ![w] = r], Tasked,
             UNCHANGED <<workers, registered>>
      PROVE  EntryStep
  BY <1>2, <1>3, <1>7, SoundCalm
<1>8. CASE SpawnCommit(w)
  BY <1>1, <1>4, <1>7, <1>8, CalmSteps DEF SpawnCommit
<1>9. CASE SpawnReady(w)
  <2>1. ASSUME NEW t \in Requests,
               task' = [task EXCEPT ![t] = Job("analysis", "queued", w, NoSession)]
        PROVE  Tasked
    <3>1. \A u \in Tasks : u # t => Kept(u)
      BY <1>1, <2>1 DEF TaskType, Kept
    <3>2. task'[t] = Job("analysis", "queued", w, NoSession)
      BY <1>1, <2>1 DEF TaskType, Tasks
    <3> QED BY <3>1, <3>2, JobFine DEF Tasked
  <2> QED BY <1>1, <1>4, <1>7, <1>9, <2>1, CalmSteps DEF SpawnReady
<1>10. CASE SpawnFails(w)
  BY <1>1, <1>4, <1>7, <1>10, CalmSteps DEF SpawnFails
<1>11. CASE SpawnMarkFailed(w)
  BY <1>1, <1>4, <1>7, <1>11, CalmSteps DEF SpawnMarkFailed
<1>12. CASE SpawnRemove(w)
  <2>1. Shrinks
    BY <1>12, PopUnregisters DEF SpawnRemove
  <2>2. Registered' \subseteq Registered
    BY <2>1 DEF Shrinks, Registered, NoWorker
  <2>3. wk' = [wk EXCEPT ![w] = [wk[w] EXCEPT !.spawn = "done"]]
    BY <1>12 DEF SpawnRemove
  <2>4. Sound(wk', Registered, Known)
    <3>1. Calm(wk[w], [wk[w] EXCEPT !.spawn = "done"])
      BY <1>1, <1>12, CalmSteps DEF SpawnRemove
    <3> QED BY <1>2, <2>3, <3>1, SoundCalm
  <2>5. Known' = Known /\ Tasked
    BY <1>4, <1>12 DEF SpawnRemove, Known
  <2> QED BY <2>1, <2>2, <2>4, <2>5, SoundLess, KeepsSessions DEF EntryStep, RegistryStep
<1> QED BY <1>5, <1>6, <1>8, <1>9, <1>10, <1>11, <1>12 DEF Spawning

\* Task t goes on: to the closing of a client only when its worker is DEAD.
LEMMA GoesOnFine ==
  ASSUME EntryInv, NEW t \in Tasks, NEW r, r.op = task[t].op, r.s = task[t].s,
         Known' = Known, r.pc \notin {"idle", "terminate"},
         r.pc = "closeClient" => \A w \in Workers : r.w = w => wk'[w].state = "DEAD"
  PROVE  TaskFine(r)
BY DEF TaskFine, EntryInv

LEMMA EntryShrinks ==
  ASSUME Shrinks, NEW R, Registered' \subseteq R, Sound(wk', R, Known'), Tasked,
         Known \subseteq Known'
  PROVE  EntryStep
BY SoundLess, KeepsSessions DEF EntryStep, RegistryStep

LEMMA PopShrinks ==
  ASSUME TypeOK, PoolInv, NEW V, Pop(V)
  PROVE  Shrinks /\ Registered' \subseteq Registered \ V
<1>1. Shrinks /\ \A v \in V : v # NoWorker => v \notin Registered'
  BY PopUnregisters
<1>2. Registered' \subseteq Registered /\ NoWorker \notin Registered
  BY <1>1 DEF Shrinks, Registered
<1> QED BY <1>1, <1>2

LEMMA DyingIsDead ==
  ASSUME NEW W \in WkType, NEW w \in Workers PROVE Dying(W, w)[w].state = "DEAD"
<1>1. W[w] \in WorkerRec /\ Dying(W, w)[w] = Ended(W[w])
  BY DEF WkType, Dying
<1> QED BY <1>1 DEF Ended, WorkerRec

\* Who shuts a worker down has taken it out of the registry.
LEMMA ShutdownClaims ==
  ASSUME TypeOK, PoolInv, NEW t \in Tasks
  PROVE  /\ task[t].op \in ShutdownOps => task[t].w \notin Registered
         /\ \A v \in task[t].todo : v \notin Registered
         /\ task[t].pc \in {"awaitSpawn", "saving"} => task[t].op \in ShutdownOps
<1>1. task[t].w \in Workers \cup {NoWorker} /\ task[t].todo \subseteq Workers
      /\ NoWorker \notin Workers /\ Registered \subseteq Workers
  BY Basics
<1>2. task[t].pc \in {"awaitSpawn", "saving"} => task[t].op \in ShutdownOps
  BY AnalysisGone
<1> QED BY <1>1, <1>2 DEF PoolInv, Claimed, ShutsDown

LEMMA EntryMarkDead ==
  ASSUME TypeOK, PoolSafe, EntryInv, NEW t \in Tasks, task[t].pc \in {"queued", "sent"},
         MarkDead(t, task[t].w), Known' = Known
  PROVE  EntryStep
<1> DEFINE w == task[t].w
<1>0. PoolInv /\ wk \in WkType /\ task \in TaskType /\ task[t] \in TaskRec
  BY Basics, WkIsTyped DEF PoolSafe
<1>1. Shrinks /\ Registered' \subseteq Registered \ {w}
  BY <1>0, PopShrinks DEF MarkDead
<1>2. w \in Workers => wk[w].spawn \notin {"created", "closeStale", "opening"}
  <2>1. Opened(w) /\ NoWorker \notin Workers
    BY <1>0, PastAwait, Basics
  <2> QED BY <2>1 DEF Opened
<1>3. Sound(wk', Registered \ {w}, Known')
  <2>1. Sound(wk, Registered \ {w}, Known)
    BY <1>0, SoundNow, SoundLess
  <2> QED BY <1>2, <2>1, SoundDying DEF MarkDead
<1>4. Tasked
  <2>1. \A u \in Tasks : u # t => Kept(u)
    BY <1>0 DEF MarkDead, TaskType, Kept
  <2>2. /\ task'[t].op = task[t].op /\ task'[t].s = task[t].s /\ task'[t].w = task[t].w
        /\ task'[t].pc = "closeClient"
    BY <1>0 DEF MarkDead, TaskType, TaskRec, TaskFields
  <2>3. w \in Workers => wk'[w].state = "DEAD"
    BY <1>0, DyingIsDead DEF MarkDead
  <2>4. TaskFine(task'[t])
    BY <2>2, <2>3, GoesOnFine
  <2> QED BY <2>1, <2>4 DEF Tasked
<1> QED BY <1>1, <1>3, <1>4, EntryShrinks

LEMMA EntryCalling ==
  ASSUME TypeOK, PoolSafe, EntryInv, NEW t \in Tasks, Calling(t)
  PROVE  EntryStep
<1>0. PoolInv /\ task \in TaskType /\ task[t] \in TaskRec
      /\ Sound(wk, Registered, Known)
  BY Basics, WkIsTyped, SoundNow DEF PoolSafe
<1>1. ASSUME UNCHANGED <<workers, wk, registered>>, Tasked PROVE EntryStep
  BY <1>0, <1>1, UnchangedRegistry, KeepsSessions DEF EntryStep, Known
<1>2. ASSUME task' = [task EXCEPT ![t].pc = "sent"], UNCHANGED Known PROVE Tasked
  <2>1. \A u \in Tasks : u # t => Kept(u)
    BY <1>0, <1>2 DEF TaskType, Kept
  <2>2. /\ task'[t].op = task[t].op /\ task'[t].s = task[t].s /\ task'[t].pc = "sent"
    BY <1>0, <1>2 DEF TaskType, TaskRec, TaskFields
  <2> QED BY <1>2, <2>1, <2>2, GoesOnFine DEF Tasked
<1>3. CASE QueuedDispatch(t)
  BY <1>1, <1>2, <1>3, EntryMarkDead DEF QueuedDispatch, Known
<1>4. CASE CallReturns(t)
  <2>1. Tasked
    BY <1>0, <1>4 DEF CallReturns, Tasked, Kept, TaskType
  <2> QED BY <1>1, <1>4, <2>1 DEF CallReturns
<1>5. CASE CallFails(t)
  BY <1>5, EntryMarkDead DEF CallFails, Known
<1> QED BY <1>3, <1>4, <1>5 DEF Calling

\* A step of a shutdown that goes on at pc.
LEMMA EntryGoesOn ==
  ASSUME TypeOK, PoolInv, EntryInv, NEW t \in Tasks, NEW T \in TaskType, NEW pc,
         pc \in {"saving", "closeClient"},
         T[t] = task[t], \A u \in Tasks : T[u] \in {task[u], Idle},
         task' = [T EXCEPT ![t].pc = pc], UNCHANGED <<workers, registered>>,
         task[t].w \notin Registered,
         \/ UNCHANGED wk /\ pc = "saving"
         \/ wk' = Dying(wk, task[t].w) /\ Opened(task[t].w)
  PROVE  EntryStep
<1> DEFINE w == task[t].w
<1>0. wk \in WkType /\ task[t] \in TaskRec /\ NoWorker \notin Workers
      /\ Sound(wk, Registered, Known)
  BY Basics, WkIsTyped, SoundNow
<1>1. Sound(wk', Registered, Known)
  <2>1. CASE wk' = Dying(wk, w) /\ Opened(w)
    <3>1. w \in Workers => wk[w].spawn \notin {"created", "closeStale", "opening"}
      BY <1>0, <2>1 DEF Opened
    <3> QED BY <1>0, <2>1, <3>1, SoundDying
  <2> QED BY <1>0, <2>1
<1>2. \A u \in Tasks : u # t => Kept(u)
  BY DEF TaskType, Kept
<1>3. task'[t].op = task[t].op /\ task'[t].s = task[t].s /\ task'[t].pc = pc
      /\ task'[t].w = w
  BY <1>0 DEF TaskType, TaskRec, TaskFields
<1>4. pc = "closeClient" /\ w \in Workers => wk'[w].state = "DEAD"
  BY <1>0, DyingIsDead
<1>5. Tasked
  BY <1>2, <1>3, <1>4, GoesOnFine DEF Tasked, Known
<1> QED BY <1>1, <1>5, UnchangedRegistry, KeepsSessions DEF EntryStep, Known

LEMMA EntryClosing ==
  ASSUME TypeOK, PoolSafe, EntryInv, NEW t \in Tasks, Closing(t)
  PROVE  EntryStep
<1> DEFINE w == task[t].w
<1>0. /\ PoolInv /\ task \in TaskType /\ task[t] \in TaskRec /\ wk \in WkType
      /\ Sound(wk, Registered, Known)
  BY Basics, WkIsTyped, SoundNow DEF PoolSafe
<1>1. CASE SpawnAwaited(t)
  <2> DEFINE rest == WithoutAnalysis(task, w)
  <2>1. /\ rest[t] = task[t] /\ \A u \in Tasks : rest[u] \in {task[u], Idle}
        /\ rest \in TaskType
    BY <1>0, <1>1, AnalysisGone, WithoutAnalysisType DEF SpawnAwaited
  <2>2. w \notin Registered /\ Opened(w)
    BY <1>0, <1>1, ShutdownClaims, PastAwait DEF SpawnAwaited
  <2>3. PICK pc \in {"saving", "closeClient"} :
          /\ task' = [rest EXCEPT ![t].pc = pc]
          /\ (UNCHANGED wk /\ pc = "saving") \/ wk' = Dying(wk, w)
    BY <1>1 DEF SpawnAwaited
  <2> HIDE DEF rest
  <2> QED BY <1>0, <1>1, <2>1, <2>2, <2>3, EntryGoesOn DEF SpawnAwaited
<1>2. CASE SaveEnds(t)
  <2>1. w \notin Registered /\ Opened(w)
    BY <1>0, <1>2, ShutdownClaims, PastAwait DEF SaveEnds
  <2> QED BY <1>0, <1>2, <2>1, EntryGoesOn DEF SaveEnds
<1>3. CASE ClientClosed(t)
  <2> DEFINE closed == [wk EXCEPT ![w].client = FALSE]
  <2>1. Sound(closed, Registered, Known)
    <3>1. w \in Workers => wk[w].state = "DEAD"
      BY <1>3 DEF EntryInv, ClientClosed
    <3> QED BY <1>0, <3>1, SoundRetire
  <2>2. Known' = Known
    BY <1>3 DEF ClientClosed, Known
  <2>3. CASE task[t].op # "open" /\ wk' = closed /\ task' = [task EXCEPT ![t] = Idle]
             /\ UNCHANGED workers
    <3>1. Tasked
      BY <1>0, <2>3 DEF TaskType, Kept, Tasked
    <3> HIDE DEF closed
    <3> QED BY <2>1, <2>2, <2>3, <3>1, UnchangedRegistry, KeepsSessions DEF EntryStep
  <2>4. CASE task[t].op = "open" /\ SpawnWorker(t, task[t].s, task[t].path, closed)
    <3>1. task[t].s \in Sessions /\ task[t].path \in Paths
      BY <1>0, <2>4 DEF TaskRec
    <3>2. task[t].s \in Known'
      BY <2>2, <2>4 DEF EntryInv
    <3>3. Tasked
      BY <1>0, <2>4 DEF SpawnWorker, TaskType, Kept, Tasked
    <3> HIDE DEF closed
    <3> QED BY <2>1, <2>2, <2>4, <3>1, <3>2, <3>3, SoundSpawnWorker, KeepsSessions DEF EntryStep
  <2>5. ASSUME task[t].op = "open", NEW v \in task[t].todo, wk' = CancelSpawn(closed, v),
               task' = [task EXCEPT ![t] = NowClosing(task[t], v)], UNCHANGED workers
        PROVE  EntryStep
    <3>1. v \notin Registered
      BY <1>0, ShutdownClaims
    <3>2. Sound(wk', Registered, Known)
      <4> HIDE DEF closed
      <4> QED BY <2>1, <2>5, <3>1, SoundCancel
    <3>3. \A u \in Tasks : u # t => Kept(u)
      BY <1>0, <2>5 DEF Kept, TaskType
    <3>4. task'[t].op = task[t].op /\ task'[t].s = task[t].s /\ task'[t].pc = "awaitSpawn"
      BY <1>0, <2>5 DEF NowClosing, TaskType, TaskRec, TaskFields
    <3>5. Tasked
      BY <2>2, <3>3, <3>4, GoesOnFine DEF Tasked
    <3> QED BY <2>2, <2>5, <3>2, <3>5, UnchangedRegistry, KeepsSessions DEF EntryStep
  <2> HIDE DEF closed
  <2> QED BY <1>3, <2>3, <2>4, <2>5 DEF ClientClosed, closed
<1> QED BY <1>1, <1>2, <1>3 DEF Closing

LEMMA EntryClient ==
  ASSUME TypeOK, PoolSafe, EntryInv, NEW t \in Requests, NEW s \in Sessions, NEW p \in Paths,
         \/ OpenDatabase(t, s, p) \/ OpenDetaching(t, s, p)
         \/ ToolCall(t, s, p) \/ ReadResource(t, s, p) \/ StartAnalysis(t, s, p)
         \/ JoinAnalysis(s, p) \/ CloseDetaches(t, s, p) \/ LateCall(t, s, p)
         \/ \E force \in BOOLEAN : SaveDatabase(t, s, p, force) \/ CloseTerminates(t, s, p, force)
  PROVE  EntryStep
<1>0. /\ PoolInv /\ wk \in WkType /\ task \in TaskType /\ t \in Tasks
      /\ \A S : Sound(wk, Registered, S)
  BY WkIsTyped, SoundNow DEF Tasks, PoolSafe
<1>a. /\ registered' = Registering(s) => Known' = Known \cup {s}
      /\ UNCHANGED registered => Known' = Known
  BY DEF Known, Registering
<1>1. ASSUME NEW r, task' = [task EXCEPT ![t] = r], TaskFine(r) PROVE Tasked
  BY <1>0, <1>1 DEF TaskType, Kept, Tasked
<1>2. ASSUME UNCHANGED workers, Known \subseteq Known', Tasked,
             Sound(wk', Registered, Known')
      PROVE  EntryStep
  BY <1>2, UnchangedRegistry, KeepsSessions DEF EntryStep
<1>3. ASSUME NEW W, SpawnWorker(t, s, p, W), Known' = Known \cup {s},
             Sound(W, Registered, Known')
      PROVE  EntryStep
  <2>1. Tasked
    BY <1>0, <1>3 DEF SpawnWorker, TaskType, Kept, Tasked
  <2> QED BY <1>0, <1>3, <2>1, SoundSpawnWorker, KeepsSessions DEF EntryStep
<1>4. CASE OpenDatabase(t, s, p)
  BY <1>0, <1>a, <1>3, <1>4 DEF OpenDatabase
<1>5. CASE OpenDetaching(t, s, p)
  <2> DEFINE held == {w \in Active : s \in wk[w].sessions}
             last == {w \in held : wk[w].sessions = {s}}
             detached == Detach(wk, held, s)
  <2>1. held \subseteq Workers
    <3>1. Active \subseteq Workers
      BY <1>0, Basics DEF Active
    <3> QED BY <3>1
  <2>2. Sound(detached, Registered, Known')
    BY <1>0, <2>1, SoundDetach
  <2>3. ASSUME NEW w \in last, Pop(last), wk' = CancelSpawn(detached, w),
               task' = [task EXCEPT ![t] =
                          [Job("open", "awaitSpawn", w, s)
                             EXCEPT !.todo = last \ {w}, !.path = p]],
               Known' = Known \cup {s}
        PROVE  EntryStep
    <3> DEFINE job == [Job("open", "awaitSpawn", w, s) EXCEPT !.todo = last \ {w}, !.path = p]
    <3>1. job.op = "open" /\ job.pc = "awaitSpawn" /\ job.s = s
      BY DEF Job, Idle
    <3>2. TaskFine(job)
      <4> HIDE DEF job
      <4> QED BY <2>3, <3>1 DEF TaskFine
    <3>3. Tasked
      <4> HIDE DEF TaskFine
      <4> QED BY <1>1, <2>3, <3>2
    <3> HIDE DEF last, held, detached, job
    <3>4. Shrinks /\ Registered' \subseteq Registered \ last
      BY <1>0, <2>3, PopShrinks
    <3>5. Sound(wk', Registered \ last, Known')
      <4>1. Sound(detached, Registered \ last, Known')
        BY <2>2, SoundLess
      <4> QED BY <2>3, <4>1, SoundCancel
    <3> QED BY <2>3, <3>3, <3>4, <3>5, EntryShrinks
  <2> HIDE DEF last, held, detached
  <2> QED BY <1>a, <1>3, <1>5, <2>2, <2>3 DEF OpenDetaching, last, held, detached
<1>6. ASSUME NEW w \in Workers, Dispatch(t, s, w) PROVE EntryStep
  <2>1. TaskFine(Job("tool", "sent", w, s))
    BY JobFine
  <2>2. Tasked
    BY <1>1, <1>6, <2>1 DEF Dispatch
  <2>3. Sound(wk', Registered, Known')
    BY <1>0, <1>a, <1>6, SoundAttach DEF Dispatch
  <2> QED BY <1>a, <1>2, <1>6, <2>2, <2>3 DEF Dispatch
<1>7. CASE StartAnalysis(t, s, p)
  <2> PICK w \in Workers :
         /\ task' = [task EXCEPT ![t] = Job("analysis", "queued", w, NoSession)]
         /\ \/ wk' = [wk EXCEPT ![w] = Attached(wk[w], s)] /\ Known' = Known \cup {s}
            \/ wk' = wk /\ Known' = Known
    BY <1>a, <1>7 DEF StartAnalysis
  <2>1. TaskFine(Job("analysis", "queued", w, NoSession))
    BY JobFine
  <2>2. Tasked
    BY <1>1, <2>1
  <2>3. Sound(wk', Registered, Known')
    <3>1. Sound(wk, Registered, Known')
      BY <1>0
    <3>2. CASE wk' = [wk EXCEPT ![w] = Attached(wk[w], s)] /\ s \in Known'
      BY <3>1, <3>2, SoundAttach
    <3>3. CASE wk' = wk
      BY <3>1, <3>3
    <3> QED BY <3>2, <3>3
  <2> QED BY <1>2, <1>7, <2>2, <2>3 DEF StartAnalysis
<1>8. CASE CloseDetaches(t, s, p)
  <2> PICK w \in Workers : wk' = Detach(wk, {w}, s)
    BY <1>8 DEF CloseDetaches
  <2>1. Sound(wk', Registered, Known')
    BY <1>0, SoundDetach
  <2>2. Tasked
    BY <1>8 DEF CloseDetaches, Kept, Tasked
  <2> QED BY <1>a, <1>2, <1>8, <2>1, <2>2 DEF CloseDetaches
<1>9. ASSUME NEW force \in BOOLEAN, SaveDatabase(t, s, p, force) PROVE EntryStep
  <2> PICK w \in Workers : task' = [task EXCEPT ![t] = Job("save", "queued", w, s)]
    BY <1>9 DEF SaveDatabase
  <2>1. TaskFine(Job("save", "queued", w, s))
    BY JobFine
  <2>2. Tasked
    BY <1>1, <2>1
  <2> QED BY <1>0, <1>a, <1>2, <1>9, <2>2 DEF SaveDatabase
<1>10. ASSUME NEW force \in BOOLEAN, CloseTerminates(t, s, p, force) PROVE EntryStep
  <2> PICK w \in Workers, op \in {"forceClose", "close"} :
         /\ Pop({w})
         /\ wk' = CancelSpawn(Detach(wk, {w}, s), w)
         /\ task' = [task EXCEPT ![t] = Job(op, "awaitSpawn", w, s)]
    BY <1>10 DEF CloseTerminates, CloseOp
  <2>1. TaskFine(Job(op, "awaitSpawn", w, s))
    BY JobFine
  <2>2. Tasked
    BY <1>1, <2>1
  <2>3. Shrinks /\ Registered' \subseteq Registered \ {w}
    BY <1>0, PopShrinks
  <2>4. Sound(wk', Registered \ {w}, Known')
    <3>1. Sound(wk, Registered \ {w}, Known')
      BY <1>0, SoundLess
    <3>2. Sound(Detach(wk, {w}, s), Registered \ {w}, Known')
      BY <3>1, SoundDetach
    <3> QED BY <3>2, SoundCancel
  <2> QED BY <1>a, <1>10, <2>2, <2>3, <2>4, EntryShrinks DEF CloseTerminates
<1>11. CASE JoinAnalysis(s, p)
  <2> PICK w \in Workers : wk' = [wk EXCEPT ![w] = Attached(wk[w], s)]
    BY <1>11 DEF JoinAnalysis
  <2>1. Sound(wk', Registered, Known')
    BY <1>0, <1>a, <1>11, SoundAttach DEF JoinAnalysis
  <2>2. Tasked
    BY <1>11 DEF JoinAnalysis, Kept, Tasked
  <2> QED BY <1>a, <1>2, <1>11, <2>1, <2>2 DEF JoinAnalysis
<1>12. CASE LateCall(t, s, p)
  <2> PICK w \in Workers :
         /\ wk' = [wk EXCEPT ![w] = Attached(wk[w], s)]
         /\ task' = [task EXCEPT ![t] = Job("tool", "sent", w, NoSession)]
    BY <1>12 DEF LateCall
  <2>1. TaskFine(Job("tool", "sent", w, NoSession))
    BY JobFine
  <2>2. Tasked
    BY <1>1, <2>1
  <2>3. Known' = Known \cup {s}
    BY <1>a, <1>12 DEF LateCall
  <2>4. Sound(wk', Registered, Known')
    BY <1>0, <2>3, SoundAttach
  <2> QED BY <1>2, <1>12, <2>2, <2>3, <2>4 DEF LateCall
<1> QED
  BY <1>4, <1>5, <1>6, <1>7, <1>8, <1>9, <1>10, <1>11, <1>12 DEF ToolCall, ReadResource

LEMMA EntryCancel ==
  ASSUME TypeOK, PoolSafe, EntryInv, NEW t \in Requests, CancelRequest(t)
  PROVE  EntryStep
<1> DEFINE w == task[t].w
           shutting == task[t].pc \in {"awaitSpawn", "saving"}
           T == IF shutting THEN WithoutAnalysis(task, w) ELSE task
<1>0. /\ PoolInv /\ t \in Tasks /\ task \in TaskType /\ task[t] \in TaskRec
      /\ Sound(wk, Registered, Known)
  BY Basics, WkIsTyped, SoundNow DEF PoolSafe, Tasks
<1>1. T \in TaskType /\ T[t] = task[t] /\ \A u \in Tasks : T[u] \in {task[u], Idle}
  BY <1>0, WithoutAnalysisType, AnalysisGone
<1>2. task' = [T EXCEPT ![t] = LeftBehind(T[t])]
  BY DEF CancelRequest
<1>3. Sound(wk', Registered, Known)
  <2>1. shutting => w \notin Registered
    BY <1>0, ShutdownClaims
  <2> QED BY <1>0, <2>1, SoundCut DEF CancelRequest
<1> HIDE DEF T
<1>4. \A u \in Tasks : u # t => Kept(u)
  BY <1>1, <1>2 DEF TaskType, Kept
<1>5. Kept(t) \/ TaskFine(task'[t])
  <2>1. task'[t] = LeftBehind(task[t])
    BY <1>0, <1>1, <1>2 DEF TaskType
  <2>2. CASE task[t].op # "save"
    BY <2>1, <2>2 DEF LeftBehind, Kept
  <2>3. CASE task[t].op = "save"
    <3>1. task'[t] = [task[t] EXCEPT !.s = NoSession]
      BY <2>1, <2>3 DEF LeftBehind
    <3>2. /\ task'[t].op = "save" /\ task'[t].pc = task[t].pc /\ task'[t].w = task[t].w
          /\ task[t].pc \notin {"awaitSpawn", "saving"}
      BY <1>0, <2>3, <3>1, ShutdownClaims DEF TaskRec, TaskFields, ShutdownOps
    <3>3. wk' = wk
      BY <3>2 DEF CancelRequest
    <3> QED BY <1>0, <3>2, <3>3 DEF TaskFine, EntryInv
  <2> QED BY <2>2, <2>3
<1>6. Tasked
  BY <1>4, <1>5 DEF Tasked
<1> QED BY <1>3, <1>6, UnchangedRegistry, KeepsSessions DEF EntryStep, CancelRequest, Known

LEMMA EntryQuiet ==
  ASSUME TypeOK, PoolSafe, EntryInv,
         \/ \E s \in Sessions : Disconnect(s) \/ DisconnectUnnoticed(s) \/ Connect(s)
         \/ \E w \in Workers : ProcessDies(w) \/ ProcessReaped(w) \/ DeathWatch(w)
         \/ ShutdownDone
         \/ UNCHANGED vars
  PROVE  EntryStep
<1>0. /\ PoolInv /\ wk \in WkType /\ \A S : Sound(wk, Registered, S)
      /\ \A w \in Workers : wk[w] \in WorkerRec /\ OpenOK(wk[w]) /\ UpOK(wk[w])
  BY Basics, WkIsTyped, SoundNow DEF PoolSafe, EntryInv
<1>1. UNCHANGED task => Tasked
  BY DEF Tasked, Kept
<1>2. ASSUME NEW s \in Sessions, Disconnect(s) PROVE EntryStep
  <2>1. Active \subseteq Workers
    BY <1>0, Basics DEF Active
  <2>2. Sound(wk', Registered, Known')
    BY <1>0, <1>2, <2>1, SoundDetach DEF Disconnect, DetachAll
  <2>3. \A w \in Active : wk'[w].sessions = wk[w].sessions \ {s}
    BY <1>0, <1>2, <2>1 DEF Disconnect, DetachAll, Detach, WorkerRec
  <2>4. Leaves
    BY <1>2, <2>3 DEF Leaves, Disconnect, Known
  <2> QED BY <1>1, <1>2, <2>2, <2>4, UnchangedRegistry DEF EntryStep, Disconnect
<1>3. ASSUME NEW w \in Workers, NEW r, Calm(wk[w], r), wk' = [wk EXCEPT ![w] = r],
             UNCHANGED <<workers, registered, task>>
      PROVE  EntryStep
  BY <1>0, <1>1, <1>3, SoundCalm, UnchangedRegistry, KeepsSessions DEF EntryStep, Known
<1>4. ASSUME NEW w \in Workers, ProcessDies(w) \/ ProcessReaped(w) PROVE EntryStep
  <2>1. Calm(wk[w], [wk[w] EXCEPT !.proc = "down"])
    BY <1>0, <1>4, CalmSteps DEF ProcessDies, ProcessReaped
  <2> QED BY <1>3, <1>4, <2>1 DEF ProcessDies, ProcessReaped
<1>5. ASSUME NEW w \in Workers, DeathWatch(w) PROVE EntryStep
  <2>1. Calm(wk[w], [wk[w] EXCEPT !.state = "DEAD", !.watched = FALSE])
    BY <1>0, <1>5, CalmSteps DEF DeathWatch
  <2> QED BY <1>3, <1>5, <2>1 DEF DeathWatch
<1>6. CASE \/ ShutdownDone \/ UNCHANGED vars
            \/ \E s \in Sessions : DisconnectUnnoticed(s) \/ Connect(s)
  <2>1. UNCHANGED <<workers, registered, task, wk>>
    BY <1>6 DEF ShutdownDone, vars, DisconnectUnnoticed, Connect
  <2> QED BY <1>0, <1>1, <2>1, UnchangedRegistry, KeepsSessions DEF EntryStep, Known
<1> QED BY <1>2, <1>4, <1>5, <1>6

LEMMA EntryStopping ==
  ASSUME TypeOK, PoolSafe, EntryInv, Shutdown \/ Stopping
  PROVE  EntryStep
<1>0. /\ PoolInv /\ task \in TaskType /\ wk \in WkType /\ NoWorker \notin Workers
      /\ \A S : Sound(wk, Registered, S)
      /\ \A p \in Paths : p \in Tasks
  BY Basics, SoundNow, WkIsTyped DEF PoolSafe, Tasks
<1>1. CASE Shutdown
  <2>1. TaskFine(Job("terminate", "terminate", NoWorker, NoSession))
    BY <1>0 DEF TaskFine, Job, Idle
  <2>2. Tasked
    BY <1>1, <2>1 DEF Shutdown, Kept, Tasked
  <2> QED
    BY <1>0, <1>1, <2>2, UnchangedRegistry, KeepsSessions DEF EntryStep, Shutdown, Known
<1>2. ASSUME NEW p \in Paths, TerminateWorker(p) PROVE EntryStep
  <2> DEFINE w == workers[p]
  <2>1. Shrinks /\ Registered' \subseteq Registered \ {w}
    BY <1>0, <1>2, PopShrinks DEF TerminateWorker
  <2>2. Sound(wk', Registered \ {w}, Known)
    <3>1. Sound(wk, Registered \ {w}, Known)
      BY <1>0, SoundLess
    <3> QED BY <1>2, <3>1, SoundCancel DEF TerminateWorker
  <2>3. TaskFine(Job("terminate", "awaitSpawn", w, NoSession))
    BY JobFine
  <2>4. Tasked
    BY <1>0, <1>2, <2>3 DEF TerminateWorker, TaskType, Kept, Tasked
  <2> QED BY <1>2, <2>1, <2>2, <2>4, EntryShrinks DEF TerminateWorker, Known
<1>3. CASE AbortShutdown
  <2> DEFINE cut == {task[p].w : p \in {q \in Paths : task[q].pc \in {"awaitSpawn", "saving"}}}
  <2>1. Shrinks /\ Registered' = {}
    BY <1>3 DEF AbortShutdown, Shrinks, Registered
  <2>2. Sound(wk', {}, Known)
    <3>1. Sound(wk, {}, Known)
      BY <1>0, SoundLess
    <3>2. \A v \in Workers : /\ Sound(CutShort(wk, v), {}, Known)
                             /\ Sound(CancelSpawn(wk, v), {}, Known)
      BY <3>1, SoundCut, SoundCancel
    <3>3. \A v \in Workers : wk'[v] \in {CutShort(wk, v)[v], CancelSpawn(wk, v)[v], wk[v]}
      BY <1>3 DEF AbortShutdown
    <3>4. \A v \in Workers : /\ wk'[v] \in WorkerRec /\ OpenOK(wk'[v]) /\ UpOK(wk'[v])
                             /\ wk'[v].sessions \subseteq wk[v].sessions \cup Known
      BY <3>1, <3>2, <3>3 DEF Sound, WkType
    <3>5. wk' \in WkType
      <4>1. wk' = [v \in Workers |-> wk'[v]]
        BY <1>3 DEF AbortShutdown
      <4> QED BY <3>4, <4>1 DEF WkType
    <3> QED BY <3>4, <3>5 DEF Sound
  <2>3. \A t \in Tasks : \/ Kept(t)
                         \/ \E w : task'[t] = Job("reap", "awaitSpawn", w, NoSession)
    BY <1>3 DEF AbortShutdown, Kept
  <2>4. Tasked
    BY <2>3, JobFine DEF Tasked
  <2> QED BY <1>3, <2>1, <2>2, <2>4, EntryShrinks DEF AbortShutdown, Known
<1>4. ASSUME NEW p \in Paths, ForceClose(p) PROVE EntryStep
  <2> DEFINE w == task[p].w
             T == WithoutAnalysis(task, w)
  <2>1. w \notin Registered /\ Opened(w)
    BY <1>0, <1>4, ShutdownClaims, PastAwait DEF ForceClose
  <2>2. T \in TaskType /\ T[p] = task[p] /\ \A u \in Tasks : T[u] \in {task[u], Idle}
    BY <1>0, <1>4, WithoutAnalysisType, AnalysisGone DEF ForceClose
  <2>3. task' = [T EXCEPT ![p].pc = "closeClient"]
    BY <1>4 DEF ForceClose
  <2> HIDE DEF T
  <2> QED BY <1>0, <1>4, <2>1, <2>2, <2>3, EntryGoesOn DEF ForceClose
<1>5. CASE ShutdownDone
  BY <1>5, EntryQuiet
<1> QED
  BY <1>1, <1>2, <1>3, <1>4, <1>5 DEF Stopping, TerminateMissing, ShutdownDeadline

LEMMA EntryNext ==
  ASSUME TypeOK, PoolSafe, EntryInv, [Next]_vars PROVE EntryStep
<1>1. CASE Client
  BY <1>1, EntryClient, EntryCancel, EntryQuiet, EntryStopping DEF Client, Connected
<1>2. CASE \E w \in Workers : Spawning(w)
  BY <1>2, EntrySpawning
<1>3. CASE \E t \in Tasks : Calling(t) \/ Closing(t)
  BY <1>3, EntryCalling, EntryClosing
<1>4. CASE \E w \in Workers : ProcessDies(w) \/ ProcessReaped(w) \/ DeathWatch(w)
  BY <1>4, EntryQuiet
<1>5. CASE Stopping
  BY <1>5, EntryStopping
<1>6. CASE UNCHANGED vars
  BY <1>6, EntryQuiet
<1> QED BY <1>1, <1>2, <1>3, <1>4, <1>5, <1>6 DEF Next

\* What a step does to the set of listed workers: it adds at most the one it
\* creates, and a DEAD worker stays so.
LEMMA ListedLater ==
  ASSUME TypeOK, PoolSafe, [Next]_vars, RegistryStep
  PROVE  \/ /\ Registered' \subseteq Registered /\ Active' \subseteq Active
            /\ Shrinks /\ \A v \in Workers : Ages(wk[v], wk'[v])
         \/ \E n \in Workers, p \in Paths :
              /\ Enrolled(n, p) /\ wk[n] = NewWorker
              /\ Registered' \subseteq Registered \cup {n}
              /\ Active' \subseteq Active \cup {n}
              /\ \A v \in Workers : v # n => Ages(wk[v], wk'[v])
<1>0. PoolInv /\ LeaseStep
  BY StepLeases DEF PoolSafe
<1>1. \A v \in Workers : wk[v].state = "DEAD" => wk'[v].state = "DEAD"
  BY <1>0 DEF LeaseStep, Born, Granted, Progresses, Moves, Ages, Later
<1>2. \A v \in Workers : v \notin Registered' \/ v \in Registered => Ages(wk[v], wk'[v])
  <2>1. \A v \in Workers : v \in Registered => wk[v].state # "NONE"
    BY <1>0, Basics
  <2> QED BY <1>0, <2>1 DEF LeaseStep, Born, Granted, Progresses, Moves
<1>3. Registered \subseteq Workers /\ \A p \in Paths : workers[p] \in Workers \cup {NoWorker}
  BY <1>0, Basics
<1>4. CASE Shrinks
  <2>1. Registered' \subseteq Registered
    BY <1>4 DEF Shrinks, Registered
  <2> QED BY <1>1, <1>2, <1>3, <1>4, <2>1 DEF Active
<1>5. ASSUME NEW n \in Workers, NEW p \in Paths, Enrolled(n, p)
      PROVE  /\ wk[n] = NewWorker
             /\ Registered' \subseteq Registered \cup {n}
             /\ Active' \subseteq Active \cup {n}
             /\ \A v \in Workers : v # n => Ages(wk[v], wk'[v])
  <2>1. wk[n] = NewWorker
    <3>1. n \in Nat /\ created \in Nat /\ WorkerOK(n) /\ n = created + 1
      BY <1>0, <1>5, Basics DEF Enrolled
    <3> QED BY <3>1 DEF WorkerOK
  <2>2. Registered' \subseteq Registered \cup {n}
    <3>1. \A q \in Paths : workers'[q] = IF q = p THEN n ELSE workers[q]
      BY <1>5 DEF Enrolled, TypeOK
    <3> QED BY <3>1 DEF Registered
  <2> QED BY <1>1, <1>2, <1>3, <2>1, <2>2 DEF Active
<1> QED BY <1>4, <1>5 DEF RegistryStep

LEMMA EntryInvNext ==
  ASSUME TypeOK, PoolSafe, EntryInv, [Next]_vars PROVE EntryInv'
<1>0. PoolInv /\ EntryStep /\ LeaseStep
  BY EntryNext, StepLeases DEF PoolSafe
<1>1. /\ \A w \in Workers : UpOK(wk'[w])
      /\ \A w \in Registered' : RegOK(wk'[w])
  <2>1. Registered' \subseteq Workers
    BY TypeOKNext DEF TypeOK, Registered
  <2> QED BY <1>0, <2>1 DEF EntryStep, Sound
<1>2. \A w \in Workers : wk'[w].stale \notin Registered'
  <2>1. CASE /\ Registered' \subseteq Registered
             /\ \A v \in Workers : Ages(wk[v], wk'[v])
    BY <2>1 DEF Ages, EntryInv
  <2>2. ASSUME NEW n \in Workers, NEW p \in Paths, Enrolled(n, p), wk[n] = NewWorker,
               Registered' \subseteq Registered \cup {n},
               \A v \in Workers : v # n => Ages(wk[v], wk'[v])
        PROVE  \A w \in Workers : wk'[w].stale \notin Registered'
    <3>1. \A v \in Workers : wk[v].stale # n
      <4>1. \A v \in Workers : WorkerOK(v) /\ NoWorker \notin Workers
        BY <1>0, Basics
      <4>2. wk[n].state # "DEAD"
        BY <2>2 DEF NewWorker
      <4> QED BY <4>1, <4>2 DEF WorkerOK
    <3> QED BY <2>2, <3>1 DEF Enrolled, Ages, EntryInv
  <2> QED BY <1>0, <2>1, <2>2, ListedLater DEF EntryStep
<1>3. ASSUME NEW t \in Tasks
      PROVE  /\ \A w \in Workers :
                  task'[t].pc = "closeClient" /\ task'[t].w = w => wk'[w].state = "DEAD"
             /\ task'[t].op = "open" => task'[t].s \in Known'
             /\ task'[t].pc \in {"idle", "terminate"} => task'[t].w = NoWorker
  <2>1. CASE task'[t] = task[t]
    <3>1. \A v \in Workers : wk[v].state = "DEAD" => wk'[v].state = "DEAD"
      BY <1>0 DEF LeaseStep, Born, Granted, Progresses, Moves, Ages, Later
    <3>2. task[t].s \in Known => task[t].s \in Known'
      BY <1>0 DEF EntryStep, Leaves
    <3> QED BY <2>1, <3>1, <3>2 DEF EntryInv
  <2>2. CASE task'[t] = Idle
    BY <2>2 DEF Idle
  <2>3. CASE TaskFine(task'[t])
    BY <2>3 DEF TaskFine
  <2> QED BY <1>0, <2>1, <2>2, <2>3 DEF EntryStep, Tasked, Kept
<1> QED BY <1>1, <1>2, <1>3 DEF EntryInv

LEMMA EntryInvInit == Init => EntryInv
<1> SUFFICES ASSUME Init PROVE EntryInv
  OBVIOUS
<1>1. /\ Registered = {}
      /\ \A w \in Workers : wk[w] = NewWorker
      /\ \A t \in Tasks : task[t] = Idle
  BY DEF Init, Registered
<1>2. UpOK(NewWorker)
  BY DEF UpOK, NewWorker
<1> QED BY <1>1, <1>2 DEF EntryInv, Idle

LEMMA SafeEntries == Spec => [](TypeOK /\ PoolSafe /\ EntryInv)
<1>1. TypeOK /\ PoolSafe /\ EntryInv /\ [Next]_vars => EntryInv'
  BY EntryInvNext
<1> QED BY <1>1, EntryInvInit, Safe, PTL DEF Spec

\* What _workers says of a worker, its process bears out: an IDLE entry has its
\* client and a process nobody is ending, a DEAD entry has no process left, so
\* that spawn_worker may drop it and start another.
THEOREM EntriesTellTheTruth == Spec => []EntriesMatchProcesses
<1>1. TypeOK /\ PoolSafe /\ EntryInv => EntriesMatchProcesses
  <2> SUFFICES ASSUME TypeOK, PoolSafe, EntryInv, NEW w \in Registered
               PROVE  /\ wk[w].state = "IDLE" => wk[w].client /\ wk[w].proc # "closing"
                      /\ wk[w].state = "DEAD" => wk[w].proc \notin {"up", "closing"}
    BY DEF EntriesMatchProcesses
  <2>1. w \in Workers /\ OpenOK(wk[w]) /\ UpOK(wk[w]) /\ RegOK(wk[w])
    BY Basics DEF PoolSafe, EntryInv
  <2> QED BY <2>1 DEF OpenOK, UpOK, RegOK
<1> QED BY <1>1, SafeEntries, PTL

\* Sessions a live worker counts have a callback registered or none to register.
CountedKnown == \A w \in Active : wk[w].sessions \subseteq Known

\* A callback is registered for a session that is over only by a late call.
EndedApart == Cancels \/ registered \cap ended = {}

LEMMA CountedKnownNext ==
  ASSUME TypeOK, PoolSafe, EntryInv, CountedKnown, [Next]_vars PROVE CountedKnown'
<1> SUFFICES ASSUME NEW w \in Active' PROVE wk'[w].sessions \subseteq Known'
  BY DEF CountedKnown
<1>1. EntryStep
  BY EntryNext
<1>2. w \in Workers
  BY TypeOKNext DEF TypeOK, Registered, Active
<1>3. wk'[w].sessions \subseteq wk[w].sessions \cup Known'
  BY <1>1, <1>2 DEF EntryStep, Sound
<1>4. CASE w \in Active
  BY <1>1, <1>3, <1>4 DEF EntryStep, Leaves, CountedKnown
<1>5. CASE w \notin Active
  <2>1. wk[w] = NewWorker
    BY <1>1, <1>5, ListedLater DEF EntryStep
  <2> QED BY <1>3, <2>1 DEF NewWorker
<1> QED BY <1>4, <1>5

LEMMA EndedApartNext ==
  ASSUME EndedApart, [Next]_vars PROVE EndedApart'
<1>1. UNCHANGED <<registered, ended>> => EndedApart'
  BY DEF EndedApart
<1>2. CASE Client
  <2>1. ASSUME NEW t \in Requests, NEW s \in Connected, NEW p \in Paths,
               \/ OpenDatabase(t, s, p) \/ OpenDetaching(t, s, p)
               \/ ToolCall(t, s, p) \/ ReadResource(t, s, p) \/ StartAnalysis(t, s, p)
               \/ JoinAnalysis(s, p) \/ CloseDetaches(t, s, p)
               \/ \E force \in BOOLEAN : SaveDatabase(t, s, p, force) \/ CloseTerminates(t, s, p, force)
        PROVE  EndedApart'
    <3>1. registered' \in {registered, Registering(s)}
      BY <2>1 DEF OpenDatabase, OpenDetaching, ToolCall, ReadResource, Dispatch, StartAnalysis,
                  JoinAnalysis, CloseDetaches, SaveDatabase, CloseTerminates
    <3>2. ended' = ended
      BY <2>1 DEF OpenDatabase, OpenDetaching, SpawnWorker, ToolCall, ReadResource, Dispatch,
                  StartAnalysis, JoinAnalysis, CloseDetaches, SaveDatabase, CloseTerminates
    <3>3. s \notin ended /\ registered' \subseteq registered \cup {s}
      BY <3>1 DEF Connected, Registering
    <3> QED BY <3>2, <3>3 DEF EndedApart
  <2>2. ASSUME NEW t \in Requests, NEW s \in Sessions, NEW p \in Paths, LateCall(t, s, p)
        PROVE  EndedApart'
    BY <2>2 DEF LateCall, EndedApart
  <2>3. ASSUME NEW s \in Sessions, Disconnect(s) \/ DisconnectUnnoticed(s) \/ Connect(s)
        PROVE  EndedApart'
    BY <2>3 DEF Disconnect, DisconnectUnnoticed, Connect, Free, EndedApart
  <2>4. CASE Shutdown \/ \E t \in Requests : CancelRequest(t)
    BY <1>1, <2>4 DEF Shutdown, CancelRequest
  <2> QED BY <1>2, <2>1, <2>2, <2>3, <2>4 DEF Client
<1>3. CASE \E w \in Workers : Spawning(w)
  BY <1>1, <1>3 DEF Spawning, SpawnStart, SpawnStaleClosed, SpawnCommit, SpawnReady,
                    SpawnFails, SpawnMarkFailed, SpawnRemove
<1>4. CASE \E t \in Tasks : Calling(t) \/ Closing(t)
  BY <1>1, <1>4 DEF Calling, QueuedDispatch, CallReturns, CallFails,
                    Closing, SpawnAwaited, SaveEnds, ClientClosed, SpawnWorker
<1>5. CASE \E w \in Workers : ProcessDies(w) \/ ProcessReaped(w) \/ DeathWatch(w)
  BY <1>1, <1>5 DEF ProcessDies, ProcessReaped, DeathWatch
<1>6. CASE Stopping
  BY <1>1, <1>6 DEF Stopping, TerminateWorker, TerminateMissing, ShutdownDeadline,
                    AbortShutdown, ForceClose, ShutdownDone
<1>7. CASE UNCHANGED vars
  BY <1>1, <1>7 DEF vars
<1> QED BY <1>2, <1>3, <1>4, <1>5, <1>6, <1>7 DEF Next

\* Whoever a live worker counts is connected and will be detached by the callback
\* of its exit stack, or is one of the two exceptions the code makes: a session
\* whose callback could not be registered, or one that is over and whose cancelled
\* execute called late.  Without the two, nobody who has gone is counted.
THEOREM CountedSessionsWillDetach ==
  /\ Spec => []AttachedSessionsWillDetach
  /\ Manual = {} /\ ~Cancels => (Spec => []CountedSessionsAreConnected)
<1>1. Init => CountedKnown /\ EndedApart
  <2>1. Init => Active = {}
    BY DEF Init, Active, Registered
  <2> QED BY <2>1 DEF CountedKnown, EndedApart, Init
<1>2. TypeOK /\ PoolSafe /\ EntryInv /\ CountedKnown /\ EndedApart /\ [Next]_vars
        => CountedKnown' /\ EndedApart'
  BY CountedKnownNext, EndedApartNext
<1>3. CountedKnown /\ EndedApart => AttachedSessionsWillDetach
  BY DEF CountedKnown, EndedApart, AttachedSessionsWillDetach, Known
<1>4. Spec => []AttachedSessionsWillDetach
  BY <1>1, <1>2, <1>3, SafeEntries, PTL DEF Spec
<1>5. ASSUME Manual = {} /\ ~Cancels PROVE Spec => []CountedSessionsAreConnected
  <2>1. AttachedSessionsWillDetach => CountedSessionsAreConnected
    BY <1>5 DEF AttachedSessionsWillDetach, CountedSessionsAreConnected
  <2> QED BY <1>4, <2>1, PTL
<1> QED BY <1>4, <1>5

\* spawn_worker's check and its insertion are one step: never are more than
\* MAX_WORKERS databases open or opening, however opens and closes interleave.
THEOREM PoolIsBounded == Spec => []CapRespected
<1>1. Init => CapRespected
  <2>1. Init => Active = {}
    BY DEF Init, Active, Registered
  <2> QED BY <2>1, FS_EmptySet, PoolAssumption DEF CapRespected
<1>2. TypeOK /\ PoolSafe /\ EntryInv /\ CapRespected /\ [Next]_vars => CapRespected'
  <2> SUFFICES ASSUME TypeOK, PoolSafe, EntryInv, CapRespected, [Next]_vars
               PROVE  CapRespected'
    OBVIOUS
  <2>1. IsFiniteSet(Active)
    <3>1. Active \subseteq Workers
      BY RegisteredWorkers DEF Active
    <3>2. IsFiniteSet(Workers)
      BY PoolAssumption, FS_Interval DEF Workers
    <3> QED BY <3>1, <3>2, FS_Subset
  <2>2. Cardinality(Active) \in Nat
    BY <2>1, FS_CardinalityType
  <2>3. RegistryStep
    BY EntryNext DEF EntryStep
  <2>4. CASE Active' \subseteq Active
    <3>1. Active' \in SUBSET Active
      BY <2>4
    <3>2. Cardinality(Active') <= Cardinality(Active) /\ IsFiniteSet(Active')
      BY <2>1, <3>1, FS_Subset
    <3>3. Cardinality(Active') \in Nat
      BY <3>2, FS_CardinalityType
    <3> QED BY <2>2, <3>2, <3>3, PoolAssumption DEF CapRespected
  <2>5. ASSUME NEW n, HasRoom, Active' \subseteq Active \cup {n} PROVE CapRespected'
    <3>1. /\ IsFiniteSet(Active \cup {n})
          /\ Cardinality(Active \cup {n}) \in {Cardinality(Active), Cardinality(Active) + 1}
      BY <2>1, FS_AddElement
    <3>2. Cardinality(Active') <= Cardinality(Active \cup {n}) /\ Cardinality(Active') \in Nat
      BY <2>5, <3>1, FS_Subset, FS_CardinalityType
    <3> QED BY <2>2, <2>5, <3>1, <3>2, PoolAssumption DEF CapRespected, HasRoom
  <2> QED BY <2>3, <2>4, <2>5, ListedLater DEF Enrolled
<1> QED BY <1>1, <1>2, SafeEntries, PTL DEF Spec

-----------------------------------------------------------------------------
(* Who leads to a running process *)

\* The worker has a process, or an open that may still start one.
Live(r) == r.proc = "up" \/ r.spawn \in {"created", "closeStale", "opening"}

\* The path had a worker before this one.
Succeeds(w) == \E v \in Workers : v < w /\ wk[v].path = wk[w].path

Held(w) == w \in Registered \/ \E t \in Tasks : ShutsDown(t, w)

HeldInv ==
  /\ \A p \in Paths, v \in Workers :
       workers[p] # NoWorker /\ wk[v].path = p => v <= workers[p]
  /\ phase = "serving" => \A p \in Paths : Unused(p)
  /\ \A p \in Paths : task[p].op # "open"
  /\ \A w \in Workers : Live(wk[w]) /\ ~Succeeds(w) => Held(w)

\* No worker of W lives that did not.
Fades(W) == W \in WkType /\ \A v \in Workers : Live(W[v]) => Live(wk[v])

LEMMA FadesNow == ASSUME TypeOK PROVE Fades(wk)
BY WkIsTyped DEF Fades

LEMMA FadesUpdate ==
  ASSUME NEW W, Fades(W), NEW w,
         NEW r, w \in Workers => r \in WorkerRec /\ (Live(r) => Live(W[w]))
  PROVE  Fades([W EXCEPT ![w] = r])
<1>1. \A v \in Workers : [W EXCEPT ![w] = r][v] = IF v = w THEN r ELSE W[v]
  BY DEF Fades, WkType
<1>2. [W EXCEPT ![w] = r] \in WkType
  BY DEF Fades, WkType
<1> QED BY <1>1, <1>2 DEF Fades

LEMMA FadingRecords ==
  ASSUME NEW r \in WorkerRec
  PROVE  /\ Live(Cancelled(r)) => Live(r)
         /\ Live(Ended(r)) => Live(r)
         /\ r.spawn \in {"created", "closeStale"} => Live(r)
         /\ Live(Published(r)) => r.spawn # "opening" \/ Live(r)
         /\ Live(Watched(r)) => Live(r)
         /\ Live(Failing(r)) => Live(r)
         /\ Live(Failed(r)) => Live(r)
         /\ r.spawn = "created" => Live([r EXCEPT !.spawn = "closeStale"])
         /\ Live([r EXCEPT !.spawn = "done"]) => Live(r)
         /\ Live([r EXCEPT !.proc = "down"]) => Live(r)
         /\ Live([r EXCEPT !.state = "DEAD", !.watched = FALSE]) => Live(r)
         /\ Live([r EXCEPT !.client = FALSE]) => Live(r)
         /\ \A X : Live([r EXCEPT !.sessions = X]) => Live(r)
<1> USE DEF Live, WorkerRec, Procs, SpawnPCs, Unwind
<1>1. Live(Cancelled(r)) => Live(r)
  BY DEF Cancelled
<1>2. Live(Ended(r)) => Live(r)
  BY DEF Ended
<1>3. /\ Live(Published(r)) => r.spawn # "opening" \/ Live(r)
      /\ Live(Watched(r)) => Live(r)
      /\ Live(Failing(r)) => Live(r)
      /\ Live(Failed(r)) => Live(r)
  BY DEF Published, Watched, Failing, Failed
<1>4. /\ r.spawn \in {"created", "closeStale"} => Live(r)
      /\ r.spawn = "created" => Live([r EXCEPT !.spawn = "closeStale"])
      /\ Live([r EXCEPT !.spawn = "done"]) => Live(r)
      /\ Live([r EXCEPT !.proc = "down"]) => Live(r)
      /\ Live([r EXCEPT !.state = "DEAD", !.watched = FALSE]) => Live(r)
      /\ Live([r EXCEPT !.client = FALSE]) => Live(r)
  OBVIOUS
<1>5. \A X : Live([r EXCEPT !.sessions = X]) => Live(r)
  OBVIOUS
<1> HIDE DEF Live
<1> QED BY <1>1, <1>2, <1>3, <1>4, <1>5

LEMMA FadesCancel ==
  ASSUME NEW W, Fades(W), NEW w PROVE Fades(CancelSpawn(W, w))
<1>1. w \in Workers => W[w] \in WorkerRec
  BY DEF Fades, WkType
<1>2. w \in Workers => Cancelled(W[w]) \in WorkerRec /\ (Live(Cancelled(W[w])) => Live(W[w]))
  BY <1>1, CancelledType, FadingRecords
<1>3. Fades([W EXCEPT ![w] = Cancelled(W[w])])
  BY <1>2, FadesUpdate
<1> QED BY <1>3 DEF CancelSpawn

LEMMA FadesDying ==
  ASSUME NEW W, Fades(W), NEW w PROVE Fades(Dying(W, w))
<1>1. w \in Workers => W[w] \in WorkerRec
  BY DEF Fades, WkType
<1>2. w \in Workers => Ended(W[w]) \in WorkerRec /\ (Live(Ended(W[w])) => Live(W[w]))
  BY <1>1, EndedType, FadingRecords
<1>3. Fades([W EXCEPT ![w] = Ended(W[w])])
  BY <1>2, FadesUpdate
<1> QED BY <1>3 DEF Dying

LEMMA FadesRetire ==
  ASSUME NEW W, Fades(W), NEW w PROVE Fades([W EXCEPT ![w].client = FALSE])
<1> DEFINE q == [W[w] EXCEPT !.client = FALSE]
<1>1. w \in Workers => W[w] \in WorkerRec
  BY DEF Fades, WkType
<1>2. w \in Workers => q \in WorkerRec /\ (Live(q) => Live(W[w]))
  BY <1>1, RetireType, FadingRecords
<1>3. Fades([W EXCEPT ![w] = q])
  BY <1>2, FadesUpdate
<1> QED BY <1>3

LEMMA FadesDetach ==
  ASSUME NEW W, Fades(W), NEW V, NEW s PROVE Fades(Detach(W, V, s))
<1>1. Detach(W, V, s) \in WkType
  BY DetachType DEF Fades
<1>2. ASSUME NEW v \in Workers PROVE Live(Detach(W, V, s)[v]) => Live(W[v])
  <2>1. Detach(W, V, s)[v] =
          IF v \in V THEN [W[v] EXCEPT !.sessions = W[v].sessions \ {s}] ELSE W[v]
    BY DEF Detach
  <2>2. W[v] \in WorkerRec
    BY DEF Fades, WkType
  <2>3. Live([W[v] EXCEPT !.sessions = W[v].sessions \ {s}]) => Live(W[v])
    BY <2>2, FadingRecords
  <2>4. CASE v \in V
    BY <2>1, <2>3, <2>4
  <2>5. CASE v \notin V
    BY <2>1, <2>5
  <2> QED BY <2>4, <2>5
<1> QED BY <1>1, <1>2 DEF Fades

LEMMA LiveAttached ==
  ASSUME NEW r \in WorkerRec, NEW s PROVE Live(Attached(r, s)) => Live(r)
<1>1. Live([r EXCEPT !.sessions = r.sessions \cup {s}]) => Live(r)
  BY FadingRecords
<1> QED BY <1>1 DEF Attached

LEMMA FadesAttach ==
  ASSUME NEW W, Fades(W), NEW w, NEW s \in Sessions
  PROVE  Fades([W EXCEPT ![w] = Attached(W[w], s)])
<1>1. w \in Workers => W[w] \in WorkerRec
  BY DEF Fades, WkType
<1>2. w \in Workers => Attached(W[w], s) \in WorkerRec
  BY <1>1, AttachedType
<1>3. w \in Workers => (Live(Attached(W[w], s)) => Live(W[w]))
  BY <1>1, LiveAttached
<1> QED BY <1>2, <1>3, FadesUpdate

-----------------------------------------------------------------------------
\* A shutdown under way goes on, or its worker has no process left.
StaysWith(w) ==
  \A t \in Tasks : ShutsDown(t, w) => \E u \in Tasks : ShutsDown(u, w)'
LeavesTo(w) ==
  w \in Registered => \/ w \in Registered' \/ Succeeds(w)
                      \/ \E u \in Tasks : ShutsDown(u, w)'
Holds(w) ==
  Live(wk'[w]) => StaysWith(w) /\ LeavesTo(w) /\ (Live(wk[w]) \/ w \in Registered')
Own ==
  /\ phase' = "serving" => \A p \in Paths : task'[p] = Idle
  /\ \A p \in Paths : task'[p].op # "open"
HoldStep == Own /\ \A w \in Workers : Holds(w)

\* A DEAD worker does not live.
LEMMA DeadIsOver ==
  ASSUME NEW r, OpenOK(r), UpOK(r), r.state = "DEAD" PROVE ~Live(r)
BY DEF OpenOK, UpOK, Live

LEMMA PopLeaves ==
  ASSUME TypeOK, PoolInv, HeldInv, NEW V, V \subseteq Workers, Pop(V), NEW w \in Workers
  PROVE  \/ w \in V
         \/ w \in Registered => w \in Registered' \/ Succeeds(w)
<1> SUFFICES ASSUME w \notin V, w \in Registered, w \notin Registered' PROVE Succeeds(w)
  OBVIOUS
<1>1. PICK p \in Paths : workers[p] = w /\ w # NoWorker
  BY DEF Registered
<1>2. PICK v \in V : wk[v].path = p
  BY <1>1 DEF Pop, Registered
<1>3. v <= w /\ wk[w].path = p /\ v # w
  BY <1>1, <1>2 DEF HeldInv, PoolInv, Keyed
<1>4. v \in Nat /\ w \in Nat
  BY Basics
<1> QED BY <1>2, <1>3, <1>4 DEF Succeeds

\* Tasks that go on with the same workers, and ended ones that shut none down.
Same(t) ==
  \/ task'[t].op = task[t].op /\ task'[t].w = task[t].w /\ task'[t].todo = task[t].todo
  \/ task[t].op \notin ShutdownOps

LEMMA SameStays ==
  ASSUME TypeOK, PoolInv, \A t \in Tasks : Same(t), NEW w PROVE StaysWith(w)
<1>1. \A t \in Tasks : task[t].op \notin ShutdownOps => task[t].todo = {}
  <2>1. \A t \in Tasks : TaskOK(t)
    BY DEF PoolInv
  <2> QED BY <2>1 DEF TaskOK, ShutdownOps
<1> QED BY <1>1 DEF Same, StaysWith, ShutsDown

LEMMA UnusedIsSame ==
  ASSUME NEW t \in Tasks, Unused(t) PROVE Same(t)
BY DEF Unused, Same, Idle, ShutdownOps

LEMMA PathsAreNotRequests == \A p \in Paths : p \in Tasks /\ p \notin Requests
BY PoolAssumption DEF Tasks

LEMMA OwnOther ==
  ASSUME HeldInv, phase' = phase, NEW t, \A u \in Tasks : u # t => Kept(u),
         t \in Paths => task[t] # Idle /\ task'[t].op \in {task[t].op, "none"}
  PROVE  Own
<1>1. ASSUME phase = "serving", NEW p \in Paths PROVE task'[p] = Idle
  <2>1. task[p] = Idle
    BY <1>1 DEF HeldInv, Unused
  <2> QED BY <2>1, PathsAreNotRequests DEF Kept
<1>2. ASSUME NEW p \in Paths PROVE task'[p].op # "open"
  <2>1. task[p].op # "open"
    BY DEF HeldInv
  <2> QED BY <2>1, PathsAreNotRequests DEF Kept, Idle
<1> QED BY <1>1, <1>2 DEF Own

LEMMA StaysUnless ==
  ASSUME TypeOK, PoolInv, NEW w,
         \A t \in Tasks : Same(t) \/ ~ShutsDown(t, w) \/ \E u \in Tasks : ShutsDown(u, w)'
  PROVE  StaysWith(w)
<1>1. \A t \in Tasks : task[t].op \notin ShutdownOps => task[t].todo = {}
  <2>1. \A t \in Tasks : TaskOK(t)
    BY DEF PoolInv
  <2> QED BY <2>1 DEF TaskOK, ShutdownOps
<1> QED BY <1>1 DEF Same, StaysWith, ShutsDown

\* A step that leaves the registry alone.
LEMMA HoldsStill ==
  ASSUME UNCHANGED workers, Own,
         \A w \in Workers : Live(wk'[w]) => Live(wk[w]) /\ StaysWith(w)
  PROVE  HoldStep
<1>1. Registered' = Registered
  BY DEF Registered
<1> QED BY <1>1 DEF HoldStep, Holds, LeavesTo

LEMMA HoldsSame ==
  ASSUME TypeOK, PoolInv, UNCHANGED workers, Own, \A t \in Tasks : Same(t), Fades(wk')
  PROVE  HoldStep
BY SameStays, HoldsStill DEF Fades

\* A step that takes V out of the registry and claims what lives of it.
LEMMA HoldsPop ==
  ASSUME TypeOK, PoolInv, HeldInv, NEW V, V \subseteq Workers, Pop(V), Own, Fades(wk'),
         \A w \in Workers : Live(wk'[w]) => StaysWith(w),
         \A w \in V : Live(wk'[w]) => \E u \in Tasks : ShutsDown(u, w)'
  PROVE  HoldStep
<1>1. \A w \in Workers : Live(wk'[w]) => LeavesTo(w)
  BY PopLeaves DEF LeavesTo
<1> QED BY <1>1 DEF HoldStep, Holds, Fades

\* spawn_worker lists the new worker; what it drops from the registry is DEAD.
LEMMA HoldsSpawnWorker ==
  ASSUME TypeOK, PoolSafe, EntryStep, NEW t, NEW s \in Sessions, NEW p \in Paths, NEW W,
         Fades(W), SpawnWorker(t, s, p, W), Own,
         \A w \in Workers : Live(W[w]) => StaysWith(w)
  PROVE  HoldStep
<1> DEFINE old == workers[p]
           alive == old # NoWorker /\ W[old].state # "DEAD"
<1>1. /\ \A q \in Paths : workers[q] \in Workers \cup {NoWorker}
      /\ \A v \in Workers : v \in Nat \ {0}
      /\ created \in Nat /\ NoWorker \notin Workers
      /\ \A q \in Paths : workers[q] # NoWorker => workers[q] <= created
  BY Basics DEF PoolSafe, PoolInv, Keyed
<1>2. \A w \in Workers : wk'[w].state = "DEAD" => ~Live(wk'[w])
  BY DeadIsOver DEF EntryStep, Sound
<1>3. CASE wk' = [W EXCEPT ![old] = Attached(W[old], s)] /\ UNCHANGED workers
  <2>1. \A w \in Workers : Live(wk'[w]) => Live(W[w])
    <3>1. \A w \in Workers : wk'[w] = IF w = old THEN Attached(W[w], s) ELSE W[w]
      BY <1>3 DEF Fades, WkType
    <3>2. \A w \in Workers : Live(Attached(W[w], s)) => Live(W[w])
      BY LiveAttached DEF Fades, WkType
    <3> QED BY <3>1, <3>2
  <2> QED BY <1>3, <2>1, HoldsStill DEF Fades
<1>4. ASSUME ~alive, \A q \in Paths : q # p => workers'[q] = workers[q],
             old \in Workers => wk'[old] = W[old]
      PROVE  \A w \in Workers : Live(wk'[w]) => LeavesTo(w)
  <2> SUFFICES ASSUME NEW w \in Workers, Live(wk'[w]), w \in Registered
               PROVE  w \in Registered'
    BY DEF LeavesTo
  <2>1. PICK q \in Paths : workers[q] = w /\ w # NoWorker
    BY DEF Registered
  <2>2. q # p
    BY <1>1, <1>2, <1>4, <2>1
  <2> QED BY <1>4, <2>1, <2>2 DEF Registered
<1>5. CASE ~alive /\ workers' = [workers EXCEPT ![p] = NoWorker] /\ wk' = W
  <2>1. \A q \in Paths : q # p => workers'[q] = workers[q]
    BY <1>5 DEF TypeOK
  <2>2. \A w \in Workers : Live(wk'[w]) => LeavesTo(w)
    BY <1>4, <1>5, <2>1
  <2> HIDE DEF alive
  <2> QED BY <1>5, <2>2 DEF HoldStep, Holds, Fades
<1>6. ASSUME ~alive, NEW r, wk' = [W EXCEPT ![created + 1] = r],
             workers' = [workers EXCEPT ![p] = created + 1]
      PROVE  HoldStep
  <2>1. /\ \A q \in Paths : workers'[q] = IF q = p THEN created + 1 ELSE workers[q]
        /\ \A v \in Workers : v # created + 1 => wk'[v] = W[v]
    BY <1>6 DEF TypeOK, Fades, WkType
  <2>2. \A w \in Workers : Live(wk'[w]) => LeavesTo(w)
    BY <1>1, <1>4, <1>6, <2>1
  <2>3. created + 1 \in Registered' /\ StaysWith(created + 1)
    <3>1. created + 1 \in Registered'
      BY <1>1, <2>1 DEF Registered, NoWorker
    <3>2. \A u \in Tasks : ~ShutsDown(u, created + 1)
      <4>1. \A u \in Tasks : /\ TaskOK(u) /\ task[u].todo \subseteq Workers
                            /\ task[u].w \in Workers \cup {NoWorker}
        BY Basics DEF PoolSafe
      <4>2. \A v \in Workers \cup {NoWorker} : v <= created => v # created + 1
        BY <1>1 DEF NoWorker
      <4> QED BY <4>1, <4>2 DEF TaskOK, ShutsDown
    <3> QED BY <3>1, <3>2 DEF StaysWith
  <2> HIDE DEF alive
  <2> QED BY <2>1, <2>2, <2>3 DEF HoldStep, Holds, Fades
<1>7. \/ wk' = [W EXCEPT ![old] = Attached(W[old], s)] /\ UNCHANGED workers
      \/ ~alive /\ workers' = [workers EXCEPT ![p] = NoWorker] /\ wk' = W
      \/ /\ ~alive /\ workers' = [workers EXCEPT ![p] = created + 1]
         /\ \E r : wk' = [W EXCEPT ![created + 1] = r]
  BY DEF SpawnWorker
<1> HIDE DEF old, alive
<1> QED BY <1>3, <1>5, <1>6, <1>7

LEMMA UntouchedTasks ==
  ASSUME HeldInv, UNCHANGED task, phase' = phase PROVE Own /\ \A t \in Tasks : Same(t)
<1>1. \A u \in Tasks : u # NoPath => Kept(u)
  BY DEF Kept
<1>2. Own
  BY <1>1, PoolAssumption, OwnOther
<1> QED BY <1>2 DEF Same

LEMMA HoldSpawning ==
  ASSUME TypeOK, PoolSafe, EntryInv, HeldInv, NEW w \in Workers, Spawning(w)
  PROVE  HoldStep
<1>0. /\ PoolInv /\ wk[w] \in WorkerRec /\ wk \in WkType /\ task \in TaskType
      /\ Fades(wk) /\ OpenOK(wk[w]) /\ UpOK(wk[w]) /\ EntryStep
      /\ PoolSafe'
  BY Basics, WkIsTyped, FadesNow, EntrySpawning, SafeSpawning DEF PoolSafe, EntryInv
<1>1. ASSUME UNCHANGED <<workers, phase, task>>, Fades(wk') PROVE HoldStep
  BY <1>0, <1>1, UntouchedTasks, HoldsSame
<1>2. ASSUME NEW W, Fades(W), W[w] = wk[w], NEW r, r \in WorkerRec,
             Live(r) => Live(wk[w]), wk' = [W EXCEPT ![w] = r]
      PROVE  Fades(wk')
  BY <1>2, FadesUpdate
<1>3. CASE SpawnStart(w)
  <2> DEFINE v == wk[w].stale
  <2>1. Launched(wk[w]) \in WorkerRec /\ Live(wk[w])
        /\ [wk[w] EXCEPT !.spawn = "closeStale"] \in WorkerRec
    BY <1>0, <1>3, LaunchedType, AtType DEF SpawnStart, Live, SpawnPCs
  <2>2. CASE v = NoWorker
    <3>1. wk' = [wk EXCEPT ![w] = Launched(wk[w])]
      BY <1>3, <2>2 DEF SpawnStart
    <3>2. Fades(wk')
      BY <1>0, <1>2, <2>1, <3>1
    <3> QED BY <1>1, <1>3, <3>2 DEF SpawnStart
  <2>3. CASE v # NoWorker
    <3>1. v \in Workers /\ v # w
      <4>1. wk[v].state = "DEAD" /\ wk[w].state = "STARTING" /\ v \in Workers
        BY <1>0, <1>3, <2>3, Basics DEF WorkerOK, OpenOK, WorkerRec, SpawnStart
      <4> QED BY <4>1
    <3>2. Dying(wk, v)[w] = wk[w]
      BY <1>0, <3>1 DEF Dying, WkType
    <3>3. wk' = [Dying(wk, v) EXCEPT ![w] = [wk[w] EXCEPT !.spawn = "closeStale"]]
      BY <1>3, <2>3, <3>2 DEF SpawnStart
    <3>4. Fades(wk')
      BY <1>0, <1>2, <2>1, <3>2, <3>3, FadesDying
    <3> QED BY <1>1, <1>3, <3>4 DEF SpawnStart
  <2> QED BY <2>2, <2>3
<1>4. CASE SpawnStaleClosed(w)
  <2> DEFINE v == wk[w].stale
             W == [wk EXCEPT ![v].client = FALSE]
  <2>1. v # w
    <3>1. NoWorker \notin Workers /\ WorkerOK(w)
      BY <1>0, Basics
    <3> QED BY <1>0, <1>4, <3>1 DEF WorkerOK, OpenOK, SpawnStaleClosed
  <2>2. W[w] = wk[w] /\ Fades(W)
    BY <1>0, <2>1, FadesRetire DEF WkType
  <2>3. Launched(wk[w]) \in WorkerRec /\ Live(wk[w])
    BY <1>0, <1>4, LaunchedType DEF SpawnStaleClosed, Live
  <2>4. wk' = [W EXCEPT ![w] = Launched(wk[w])]
    <3>1. wk' = [wk EXCEPT ![v].client = FALSE, ![w] = Launched(@)]
      BY <1>4 DEF SpawnStaleClosed
    <3> QED BY <2>2, <3>1
  <2> HIDE DEF W
  <2>5. Fades(wk')
    BY <1>2, <2>2, <2>3, <2>4
  <2> QED BY <1>1, <1>4, <2>5 DEF SpawnStaleClosed
<1>5. CASE SpawnCommit(w)
  <2>1. Live(wk[w])
    BY <1>5 DEF SpawnCommit, Live
  <2>2. Fades(wk')
    BY <1>0, <1>2, <1>5, <2>1, PublishedType DEF SpawnCommit
  <2> QED BY <1>1, <1>5, <2>2 DEF SpawnCommit
<1>6. CASE SpawnReady(w)
  <2>1. Fades(wk')
    BY <1>0, <1>2, <1>6, WatchedType, FadingRecords DEF SpawnReady
  <2>2. ASSUME NEW t \in Requests, Unused(t),
               task' = [task EXCEPT ![t] = Job("analysis", "queued", w, NoSession)]
        PROVE  HoldStep
    <3>1. t \in Tasks /\ \A u \in Tasks : u # t => task'[u] = task[u]
      BY <1>0, <2>2 DEF TaskType, Tasks
    <3>2. \A u \in Tasks : Same(u)
      BY <2>2, <3>1, UnusedIsSame DEF Same
    <3>3. Own
      BY <1>6, <3>1, OwnOther, PathsAreNotRequests DEF Kept, SpawnReady
    <3> QED BY <1>0, <1>6, <2>1, <3>2, <3>3, HoldsSame DEF SpawnReady
  <2> QED BY <1>1, <1>6, <2>1, <2>2 DEF SpawnReady
<1>7. CASE SpawnFails(w)
  <2>1. Fades(wk')
    BY <1>0, <1>2, <1>7, FailingType, FadingRecords DEF SpawnFails
  <2> QED BY <1>1, <1>7, <2>1 DEF SpawnFails
<1>8. CASE SpawnMarkFailed(w)
  <2>1. Fades(wk')
    BY <1>0, <1>2, <1>8, FailedType, FadingRecords DEF SpawnMarkFailed
  <2> QED BY <1>1, <1>8, <2>1 DEF SpawnMarkFailed
<1>9. CASE SpawnRemove(w)
  <2> DEFINE q == [wk[w] EXCEPT !.spawn = "done"]
  <2>1. q \in WorkerRec /\ (Live(q) => Live(wk[w])) /\ ~Live(q) /\ wk' = [wk EXCEPT ![w] = q]
    <3>1. q \in WorkerRec
      BY <1>0, AtType DEF SpawnPCs
    <3>2. ~Live(q)
      BY <1>0, <1>9 DEF Live, UpOK, SpawnRemove, WorkerRec
    <3> QED BY <1>9, <3>1, <3>2 DEF SpawnRemove
  <2> HIDE DEF q
  <2>2. Fades(wk') /\ wk'[w] = q
    BY <1>0, <1>2, <2>1 DEF WkType
  <2>3. Own /\ \A v \in Workers : StaysWith(v)
    BY <1>0, <1>9, UntouchedTasks, SameStays DEF SpawnRemove
  <2> QED BY <1>0, <1>9, <2>1, <2>2, <2>3, HoldsPop DEF SpawnRemove
<1> QED BY <1>3, <1>4, <1>5, <1>6, <1>7, <1>8, <1>9 DEF Spawning

\* proxy_to_worker ends a worker it cannot reach: that one is DEAD.
LEMMA HoldMarkDead ==
  ASSUME TypeOK, PoolSafe, EntryInv, HeldInv, NEW t \in Tasks, EntryStep,
         task[t].op \in CallOps, MarkDead(t, task[t].w), phase' = phase
  PROVE  HoldStep
<1> DEFINE w == task[t].w
<1>0. /\ PoolInv /\ wk \in WkType /\ task \in TaskType /\ task[t] \in TaskRec
      /\ NoWorker \notin Workers /\ w \in Workers
  <2>1. task[t].w # NoWorker /\ task[t].w \in Workers \cup {NoWorker}
    BY Basics DEF PoolSafe, TaskOK
  <2> QED BY <2>1, Basics, WkIsTyped DEF PoolSafe
<1>1. Fades(wk')
  BY FadesNow, FadesDying DEF MarkDead
<1>2. ~Live(wk'[w])
  BY <1>0, DyingIsDead, DeadIsOver DEF MarkDead, EntryStep, Sound
<1>3. /\ \A u \in Tasks : u # t => task'[u] = task[u]
      /\ task'[t].op = task[t].op /\ task'[t].w = w /\ task'[t].todo = task[t].todo
  BY <1>0 DEF MarkDead, TaskType, TaskRec, TaskFields
<1>4. \A u \in Tasks : Same(u)
  BY <1>3 DEF Same
<1>5. Own
  BY <1>0, <1>3, OwnOther DEF Kept, Idle, CallOps
<1>6. \A v \in Workers : StaysWith(v)
  BY <1>0, <1>4, SameStays
<1> QED BY <1>0, <1>1, <1>2, <1>5, <1>6, HoldsPop DEF MarkDead

LEMMA HoldCalling ==
  ASSUME TypeOK, PoolSafe, EntryInv, HeldInv, NEW t \in Tasks, Calling(t)
  PROVE  HoldStep
<1>0. /\ PoolInv /\ EntryStep /\ task \in TaskType /\ task[t] \in TaskRec /\ Fades(wk)
      /\ task[t].pc \in {"queued", "sent"} => task[t].op \in CallOps
  BY Basics, WkIsTyped, FadesNow, EntryCalling, PastAwait DEF PoolSafe
<1>1. ASSUME UNCHANGED <<workers, wk, phase>>, task[t].op \in CallOps,
             NEW r, task' = [task EXCEPT ![t] = r], r.op \in {task[t].op, "none"}
      PROVE  HoldStep
  <2>1. task'[t] = r /\ \A u \in Tasks : u # t => task'[u] = task[u]
    BY <1>0, <1>1 DEF TaskType
  <2>2. \A u \in Tasks : Same(u)
    BY <1>1, <2>1 DEF Same, CallOps, ShutdownOps
  <2>3. Own
    BY <1>1, <2>1, OwnOther DEF Kept, Idle, CallOps
  <2> QED BY <1>0, <1>1, <2>2, <2>3, HoldsSame
<1>2. CASE QueuedDispatch(t)
  <2>1. CASE task' = [task EXCEPT ![t].pc = "sent"] /\ UNCHANGED <<workers, wk>>
    <3>1. [task[t] EXCEPT !.pc = "sent"].op = task[t].op
      BY <1>0 DEF TaskRec, TaskFields
    <3> QED BY <1>0, <1>1, <1>2, <2>1, <3>1 DEF QueuedDispatch
  <2> QED BY <1>0, <1>2, <2>1, HoldMarkDead DEF QueuedDispatch
<1>3. CASE CallReturns(t)
  <2>1. Idle.op = "none"
    BY DEF Idle
  <2> QED BY <1>0, <1>1, <1>3, <2>1 DEF CallReturns
<1>4. CASE CallFails(t)
  BY <1>0, <1>4, HoldMarkDead DEF CallFails
<1> QED BY <1>2, <1>3, <1>4 DEF Calling

\* A shutdown goes on at pc; the analysis of its worker is cancelled.
LEMMA HoldGoesOn ==
  ASSUME TypeOK, PoolInv, HeldInv, NEW t \in Tasks, NEW v, NEW pc,
         task[t].op \in ShutdownOps,
         \/ task' = [WithoutAnalysis(task, v) EXCEPT ![t].pc = pc]
         \/ task' = [task EXCEPT ![t].pc = pc],
         UNCHANGED <<workers, phase>>, Fades(wk')
  PROVE  HoldStep
<1>0. task \in TaskType /\ task[t] \in TaskRec
  BY Basics, WkIsTyped
<1>1. WithoutAnalysis(task, v)[t] = task[t] /\ WithoutAnalysis(task, v) \in TaskType
  BY <1>0, AnalysisGone, WithoutAnalysisType
<1>2. \A u \in Tasks : u # t => \/ task'[u] = task[u]
                                \/ task[u].op = "analysis" /\ task'[u] = Idle
  <2>1. \A u \in Tasks : \/ WithoutAnalysis(task, v)[u] = task[u]
                         \/ task[u].op = "analysis" /\ WithoutAnalysis(task, v)[u] = Idle
    BY DEF WithoutAnalysis
  <2>2. CASE task' = [WithoutAnalysis(task, v) EXCEPT ![t].pc = pc]
    <3>1. \A u \in Tasks : u # t => task'[u] = WithoutAnalysis(task, v)[u]
      BY <1>1, <2>2 DEF TaskType
    <3> QED BY <2>1, <3>1
  <2>3. CASE task' = [task EXCEPT ![t].pc = pc]
    BY <1>0, <2>3 DEF TaskType
  <2> QED BY <2>2, <2>3
<1>3. task'[t].op = task[t].op /\ task'[t].w = task[t].w /\ task'[t].todo = task[t].todo
  BY <1>0, <1>1 DEF TaskType, TaskRec, TaskFields
<1>4. \A u \in Tasks : Same(u)
  BY <1>2, <1>3 DEF Same, ShutdownOps
<1>5. Own
  <2>1. \A u \in Tasks : u # t => Kept(u)
    BY <1>2 DEF Kept
  <2>2. task[t] # Idle
    BY DEF Idle, ShutdownOps
  <2> QED BY <1>3, <2>1, <2>2, OwnOther
<1> QED BY <1>4, <1>5, HoldsSame

LEMMA HoldClosing ==
  ASSUME TypeOK, PoolSafe, EntryInv, HeldInv, NEW t \in Tasks, Closing(t)
  PROVE  HoldStep
<1> DEFINE w == task[t].w
<1>0. /\ PoolInv /\ EntryStep /\ task \in TaskType /\ task[t] \in TaskRec /\ TaskOK(t)
      /\ Fades(wk) /\ \A v : Fades(Dying(wk, v)) /\ NoWorker \notin Workers
      /\ task[t].pc \in {"awaitSpawn", "saving"} => task[t].op \in ShutdownOps
  BY Basics, WkIsTyped, FadesNow, FadesDying, EntryClosing, ShutdownClaims DEF PoolSafe
<1>1. CASE SpawnAwaited(t)
  <2>1. PICK pc : task' = [WithoutAnalysis(task, w) EXCEPT ![t].pc = pc]
    BY <1>1 DEF SpawnAwaited
  <2>2. Fades(wk')
    BY <1>0, <1>1 DEF SpawnAwaited
  <2> QED BY <1>0, <1>1, <2>1, <2>2, HoldGoesOn DEF SpawnAwaited
<1>2. CASE SaveEnds(t)
  BY <1>0, <1>2, HoldGoesOn DEF SaveEnds
<1>3. CASE ClientClosed(t)
  <2> DEFINE closed == [wk EXCEPT ![w].client = FALSE]
  <2>1. Fades(closed)
    BY <1>0, FadesRetire
  <2>2. w \in Workers => ~Live(wk[w])
    <3>1. \A v \in Workers : OpenOK(wk[v]) /\ UpOK(wk[v])
      BY <1>0, Basics DEF EntryInv
    <3> QED BY <1>3, <3>1, DeadIsOver DEF EntryInv, ClientClosed
  <2>3. ASSUME \A u \in Tasks : u # t => task'[u] = task[u],
               \A v \in task[t].todo : ShutsDown(t, v)', NEW v \in Workers, Live(wk[v])
        PROVE  StaysWith(v)
    <3>1. v # w
      BY <2>2, <2>3
    <3>2. ShutsDown(t, v) => ShutsDown(t, v)'
      BY <2>3, <3>1 DEF ShutsDown
    <3>3. \A u \in Tasks : Same(u) \/ u = t
      BY <2>3 DEF Same
    <3> QED BY <1>0, <3>2, <3>3, StaysUnless
  <2>4. ASSUME phase' = phase, task' = [task EXCEPT ![t] = Idle] PROVE Own
    <3>1. \A u \in Tasks : Kept(u)
      BY <1>0, <2>4 DEF TaskType, Kept
    <3>2. task[t] # Idle
      BY <1>3 DEF Idle, ClientClosed
    <3>3. task'[t].op = "none"
      BY <1>0, <2>4 DEF TaskType, Idle
    <3> QED BY <2>4, <3>1, <3>2, <3>3, OwnOther
  <2>5. CASE task[t].op # "open" /\ wk' = closed /\ task' = [task EXCEPT ![t] = Idle]
             /\ UNCHANGED <<workers, phase>>
    <3>1. task[t].todo = {}
      BY <1>0, <2>5 DEF TaskOK
    <3>2. \A v \in Workers : Live(wk'[v]) => Live(wk[v]) /\ StaysWith(v)
      <4>1. \A u \in Tasks : u # t => task'[u] = task[u]
        BY <1>0, <2>5 DEF TaskType
      <4>2. \A v \in Workers : Live(wk[v]) => StaysWith(v)
        BY <2>3, <3>1, <4>1
      <4> HIDE DEF closed
      <4> QED BY <2>1, <2>5, <4>2 DEF Fades
    <3> QED BY <2>4, <2>5, <3>2, HoldsStill
  <2>6. CASE task[t].op = "open" /\ task[t].todo = {}
             /\ SpawnWorker(t, task[t].s, task[t].path, closed)
    <3>1. task[t].s \in Sessions /\ task[t].path \in Paths
      BY <1>0, <2>6 DEF TaskRec
    <3>2. task' = [task EXCEPT ![t] = Idle] /\ phase' = phase
      BY <2>6 DEF SpawnWorker
    <3>3. \A v \in Workers : StaysWith(v) \/ ~Live(wk[v])
      <4>1. \A u \in Tasks : u # t => task'[u] = task[u]
        BY <1>0, <3>2 DEF TaskType
      <4> QED BY <2>3, <2>6, <4>1
    <3> HIDE DEF closed
    <3>4. \A v \in Workers : Live(closed[v]) => StaysWith(v)
      BY <2>1, <3>3 DEF Fades
    <3> QED BY <1>0, <2>1, <2>4, <2>6, <3>1, <3>2, <3>4, HoldsSpawnWorker
  <2>7. ASSUME task[t].op = "open", NEW v \in task[t].todo, wk' = CancelSpawn(closed, v),
               task' = [task EXCEPT ![t] = NowClosing(task[t], v)],
               UNCHANGED <<workers, phase>>
        PROVE  HoldStep
    <3>1. Fades(wk')
      <4> HIDE DEF closed
      <4> QED BY <2>1, <2>7, FadesCancel
    <3>2. /\ \A u \in Tasks : u # t => task'[u] = task[u]
          /\ task'[t].op = "open" /\ task'[t].w = v /\ task'[t].todo = task[t].todo \ {v}
      BY <1>0, <2>7 DEF NowClosing, TaskType, TaskRec, TaskFields
    <3>3. \A x \in task[t].todo : ShutsDown(t, x)'
      BY <3>2 DEF ShutsDown, ShutdownOps
    <3>4. \A x \in Workers : Live(wk[x]) => StaysWith(x)
      BY <2>3, <3>2, <3>3
    <3>5. Own
      BY <2>7, <3>2, OwnOther DEF Kept, Idle
    <3> QED BY <2>7, <3>1, <3>4, <3>5, HoldsStill DEF Fades
  <2> HIDE DEF closed
  <2> QED BY <1>3, <2>5, <2>6, <2>7 DEF ClientClosed, closed
<1> QED BY <1>1, <1>2, <1>3 DEF Closing

LEMMA HoldClient ==
  ASSUME TypeOK, PoolSafe, EntryInv, HeldInv,
         NEW t \in Requests, NEW s \in Sessions, NEW p \in Paths,
         \/ OpenDatabase(t, s, p) \/ OpenDetaching(t, s, p)
         \/ ToolCall(t, s, p) \/ ReadResource(t, s, p) \/ StartAnalysis(t, s, p)
         \/ JoinAnalysis(s, p) \/ CloseDetaches(t, s, p) \/ LateCall(t, s, p)
         \/ \E force \in BOOLEAN : SaveDatabase(t, s, p, force) \/ CloseTerminates(t, s, p, force)
  PROVE  HoldStep
<1>0. /\ PoolInv /\ EntryStep /\ task \in TaskType /\ t \in Tasks /\ t \notin Paths
      /\ Fades(wk) /\ \A V, x : Fades(Detach(wk, V, x))
      /\ \A w : Fades([wk EXCEPT ![w] = Attached(wk[w], s)])
  BY EntryClient, WkIsTyped, FadesNow, FadesDetach, FadesAttach, PoolAssumption DEF PoolSafe, Tasks
<1>1. ASSUME Unused(t), phase' = phase, NEW r, task' = [task EXCEPT ![t] = r]
      PROVE  Own /\ (\A u \in Tasks : Same(u)) /\ (\A w \in Workers : StaysWith(w))
             /\ task'[t] = r
  <2>1. task'[t] = r /\ \A u \in Tasks : u # t => task'[u] = task[u]
    BY <1>0, <1>1 DEF TaskType
  <2>2. Own
    BY <1>0, <1>1, <2>1, OwnOther DEF Kept
  <2>3. \A u \in Tasks : Same(u)
    BY <1>0, <1>1, <2>1, UnusedIsSame DEF Same
  <2> QED BY <1>0, <2>1, <2>2, <2>3, SameStays
<1>2. ASSUME UNCHANGED <<workers, phase>>, Fades(wk'),
             \/ UNCHANGED task
             \/ Unused(t) /\ \E r : task' = [task EXCEPT ![t] = r]
      PROVE  HoldStep
  BY <1>0, <1>1, <1>2, UntouchedTasks, HoldsSame
<1>3. ASSUME Unused(t), NEW W, Fades(W), SpawnWorker(t, s, p, W) PROVE HoldStep
  <2>1. Own /\ \A w \in Workers : StaysWith(w)
    BY <1>1, <1>3 DEF SpawnWorker
  <2> QED BY <1>0, <1>3, <2>1, HoldsSpawnWorker
<1>4. CASE OpenDatabase(t, s, p)
  BY <1>0, <1>3, <1>4 DEF OpenDatabase
<1>5. CASE OpenDetaching(t, s, p)
  <2> DEFINE held == {w \in Active : s \in wk[w].sessions}
             last == {w \in held : wk[w].sessions = {s}}
             detached == Detach(wk, held, s)
  <2>1. last \subseteq Workers /\ Fades(detached)
    BY <1>0, Basics DEF Active
  <2>2. ASSUME NEW w \in last, Pop(last), wk' = CancelSpawn(detached, w),
               task' = [task EXCEPT ![t] =
                          [Job("open", "awaitSpawn", w, s)
                             EXCEPT !.todo = last \ {w}, !.path = p]],
               Unused(t), phase' = phase
        PROVE  HoldStep
    <3> HIDE DEF last, detached
    <3>1. Fades(wk')
      BY <2>1, <2>2, FadesCancel
    <3>2. Own /\ \A v \in Workers : StaysWith(v)
      BY <1>1, <2>2
    <3>3. \A v \in last : ShutsDown(t, v)'
      <4> DEFINE job == [Job("open", "awaitSpawn", w, s) EXCEPT !.todo = last \ {w}, !.path = p]
      <4>1. job.op = "open" /\ job.w = w /\ job.todo = last \ {w}
        BY DEF Job, Idle
      <4>2. task'[t] = job
        BY <1>1, <2>2
      <4> HIDE DEF job
      <4> QED BY <4>1, <4>2 DEF ShutsDown, ShutdownOps
    <3> QED BY <1>0, <2>1, <2>2, <3>1, <3>2, <3>3, HoldsPop
  <2> HIDE DEF last, held, detached
  <2> QED BY <1>3, <1>5, <2>1, <2>2 DEF OpenDetaching, last, held, detached
<1>6. ASSUME NEW w \in Workers, Dispatch(t, s, w), Unused(t) PROVE HoldStep
  BY <1>0, <1>2, <1>6 DEF Dispatch
<1>7. CASE StartAnalysis(t, s, p)
  BY <1>0, <1>2, <1>7 DEF StartAnalysis
<1>8. CASE CloseDetaches(t, s, p)
  BY <1>0, <1>2, <1>8 DEF CloseDetaches
<1>9. ASSUME NEW force \in BOOLEAN, SaveDatabase(t, s, p, force) PROVE HoldStep
  BY <1>0, <1>2, <1>9 DEF SaveDatabase
<1>10. ASSUME NEW force \in BOOLEAN, CloseTerminates(t, s, p, force) PROVE HoldStep
  <2> PICK w \in Workers, op \in {"forceClose", "close"} :
         /\ Pop({w})
         /\ wk' = CancelSpawn(Detach(wk, {w}, s), w)
         /\ task' = [task EXCEPT ![t] = Job(op, "awaitSpawn", w, s)]
    BY <1>10 DEF CloseTerminates, CloseOp
  <2>1. Unused(t) /\ phase' = phase
    BY <1>10 DEF CloseTerminates
  <2>2. Own /\ (\A v \in Workers : StaysWith(v)) /\ task'[t] = Job(op, "awaitSpawn", w, s)
    BY <1>1, <2>1
  <2>3. ShutsDown(t, w)'
    <3>1. task'[t].op \in ShutdownOps /\ task'[t].w = w
      BY <2>2 DEF Job, Idle, ShutdownOps
    <3> QED BY <3>1 DEF ShutsDown
  <2>4. Fades(wk')
    BY <1>0, FadesCancel
  <2> QED BY <1>0, <2>2, <2>3, <2>4, HoldsPop
<1>11. CASE JoinAnalysis(s, p)
  BY <1>0, <1>2, <1>11 DEF JoinAnalysis
<1>12. CASE LateCall(t, s, p)
  BY <1>0, <1>2, <1>12 DEF LateCall
<1> QED
  BY <1>4, <1>5, <1>6, <1>7, <1>8, <1>9, <1>10, <1>11, <1>12 DEF ToolCall, ReadResource

LEMMA HoldQuiet ==
  ASSUME TypeOK, PoolSafe, EntryInv, HeldInv,
         \/ \E s \in Sessions : Disconnect(s) \/ DisconnectUnnoticed(s) \/ Connect(s)
         \/ \E w \in Workers : ProcessDies(w) \/ ProcessReaped(w) \/ DeathWatch(w)
         \/ ShutdownDone
         \/ UNCHANGED vars
  PROVE  HoldStep
<1>0. /\ PoolInv /\ wk \in WkType /\ Fades(wk)
      /\ \A V, x : Fades(Detach(wk, V, x))
      /\ \A w \in Workers : wk[w] \in WorkerRec /\ OpenOK(wk[w]) /\ UpOK(wk[w])
  BY Basics, WkIsTyped, FadesNow, FadesDetach DEF PoolSafe, EntryInv
<1>1. ASSUME UNCHANGED <<workers, task, phase>>, Fades(wk') PROVE HoldStep
  BY <1>0, <1>1, UntouchedTasks, HoldsSame
<1>2. ASSUME NEW s \in Sessions, Disconnect(s) \/ DisconnectUnnoticed(s) \/ Connect(s)
      PROVE  HoldStep
  BY <1>0, <1>1, <1>2 DEF Disconnect, DetachAll, DisconnectUnnoticed, Connect
<1>3. ASSUME NEW w \in Workers, NEW r \in WorkerRec, Live(r) => Live(wk[w]),
             wk' = [wk EXCEPT ![w] = r], UNCHANGED <<workers, phase, task>>
      PROVE  HoldStep
  BY <1>0, <1>1, <1>3, FadesUpdate
<1>4. ASSUME NEW w \in Workers, ProcessDies(w) \/ ProcessReaped(w) PROVE HoldStep
  <2>1. [wk[w] EXCEPT !.proc = "down"] \in WorkerRec
    BY <1>0 DEF WorkerRec, Procs
  <2> QED BY <1>0, <1>3, <1>4, <2>1, FadingRecords DEF ProcessDies, ProcessReaped
<1>5. ASSUME NEW w \in Workers, DeathWatch(w) PROVE HoldStep
  <2>1. [wk[w] EXCEPT !.state = "DEAD", !.watched = FALSE] \in WorkerRec
    BY <1>0 DEF WorkerRec, States
  <2> QED BY <1>0, <1>3, <1>5, <2>1, FadingRecords DEF DeathWatch
<1>6. CASE ShutdownDone
  <2>1. Own /\ \A t \in Tasks : Same(t)
    BY <1>6 DEF ShutdownDone, Own, Same, HeldInv
  <2> QED BY <1>0, <1>6, <2>1, HoldsSame DEF ShutdownDone
<1>7. CASE UNCHANGED vars
  BY <1>0, <1>1, <1>7 DEF vars
<1> QED BY <1>2, <1>4, <1>5, <1>6, <1>7

LEMMA HoldStopping ==
  ASSUME TypeOK, PoolSafe, EntryInv, HeldInv, Shutdown \/ Stopping
  PROVE  HoldStep
<1>0. /\ PoolInv /\ EntryStep /\ task \in TaskType /\ wk \in WkType /\ NoWorker \notin Workers
      /\ Fades(wk) /\ \A v : Fades(Dying(wk, v)) /\ Fades(CancelSpawn(wk, v))
      /\ \A t \in Tasks : TaskOK(t) /\ task[t] \in TaskRec
      /\ \A p \in Paths : p \in Tasks
  BY Basics, EntryStopping, WkIsTyped, FadesNow, FadesDying, FadesCancel DEF PoolSafe, Tasks
<1>1. CASE Shutdown
  <2>1. Own
    <3>1. \A p \in Paths : task'[p].op \in {"terminate", task[p].op}
      BY <1>0, <1>1 DEF Shutdown, Job, Idle
    <3> QED BY <1>1, <3>1 DEF Own, HeldInv, Shutdown
  <2>2. \A t \in Tasks : Same(t)
    <3>1. \A p \in Paths : task[p].op = "none"
      BY <1>1 DEF Shutdown, HeldInv, Unused, Idle
    <3>2. \A t \in Tasks : t \in Paths \/ task'[t] = task[t]
      BY <1>1 DEF Shutdown
    <3> QED BY <3>1, <3>2 DEF Same, ShutdownOps
  <2> QED BY <1>0, <1>1, <2>1, <2>2, HoldsSame DEF Shutdown
<1>2. ASSUME NEW p \in Paths, TerminateWorker(p) PROVE HoldStep
  <2>0. PICK w \in Workers : w = workers[p]
    BY <1>0, <1>2, Basics DEF TerminateWorker
  <2>1. Fades(wk')
    BY <1>0, <1>2 DEF TerminateWorker
  <2>2. task'[p] = Job("terminate", "awaitSpawn", w, NoSession)
        /\ \A u \in Tasks : u # p => task'[u] = task[u]
    BY <1>0, <1>2, <2>0 DEF TerminateWorker, TaskType
  <2>3. task'[p].op = "terminate" /\ task'[p].w = w
    BY <2>2 DEF Job, Idle
  <2>4. Own
    <3>1. phase # "serving" /\ phase' = phase
      BY <1>2 DEF TerminateWorker, HeldInv, Unused, Idle
    <3> QED BY <1>0, <2>2, <2>3, <3>1 DEF Own, HeldInv
  <2>5. \A v \in Workers : StaysWith(v)
    <3>1. task[p].w = NoWorker /\ task[p].todo = {}
      BY <1>0, <1>2 DEF TerminateWorker, EntryInv, HeldInv, TaskOK
    <3>2. \A v \in Workers : ~ShutsDown(p, v)
      BY <1>0, <3>1 DEF ShutsDown
    <3>3. \A u \in Tasks : u # p => Same(u)
      BY <2>2 DEF Same
    <3> QED BY <1>0, <3>2, <3>3, StaysUnless
  <2>6. ShutsDown(p, w)'
    BY <2>3 DEF ShutsDown, ShutdownOps
  <2>7. Pop({w})
    BY <1>2, <2>0 DEF TerminateWorker
  <2> QED BY <1>0, <2>1, <2>4, <2>5, <2>6, <2>7, HoldsPop
<1>3. CASE AbortShutdown
  <2> DEFINE cut == {task[p].w : p \in {q \in Paths : task[q].pc \in {"awaitSpawn", "saving"}}}
  <2>0. \A v \in Workers : wk'[v].state = "DEAD" => ~Live(wk'[v])
    BY <1>0, DeadIsOver DEF EntryStep, Sound
  <2>1. \A v \in Workers : Live(wk'[v]) => v \notin cut /\ Live(wk[v])
    <3>1. ASSUME NEW v \in Workers, v \in cut PROVE ~Live(wk'[v])
      <4>1. wk'[v] = CutShort(wk, v)[v]
        BY <1>3, <3>1 DEF AbortShutdown
      <4>2. wk'[v].state = "DEAD"
        <5>1. CancelSpawn(wk, v) \in WkType
          BY <1>0, FadesCancel DEF Fades
        <5> QED BY <4>1, <5>1, DyingIsDead DEF CutShort
      <4> QED BY <2>0, <4>2
    <3>2. \A v \in Workers : v \notin cut => wk'[v] \in {CancelSpawn(wk, v)[v], wk[v]}
      BY <1>3 DEF AbortShutdown
    <3>3. \A v \in Workers : Live(CancelSpawn(wk, v)[v]) => Live(wk[v])
      BY <1>0 DEF Fades
    <3> HIDE DEF cut
    <3> QED BY <3>1, <3>2, <3>3
  <2>2. ASSUME NEW v \in Workers, v \in Registered PROVE \E u \in Tasks : ShutsDown(u, v)'
    <3>1. PICK p \in Paths : workers[p] = v /\ v # NoWorker
      BY <2>2 DEF Registered
    <3>2. task'[p] = Job("reap", "awaitSpawn", v, NoSession)
      BY <1>0, <1>3, <3>1, PathsAreNotRequests DEF AbortShutdown
    <3>3. task'[p].op = "reap" /\ task'[p].w = v
      BY <3>2 DEF Job, Idle
    <3> QED BY <1>0, <3>3 DEF ShutsDown, ShutdownOps
  <2>3. ASSUME NEW v \in Workers, Live(wk'[v]) PROVE StaysWith(v)
    <3>1. \A p \in Paths : ~ShutsDown(p, v)
      <4> SUFFICES ASSUME NEW p \in Paths, ShutsDown(p, v) PROVE FALSE
        OBVIOUS
      <4>1. task[p].op \in {"none", "terminate"} /\ TaskOK(p) /\ task[p] \in TaskRec
        BY <1>0, <1>3 DEF AbortShutdown
      <4>2. task[p].w = v /\ task[p].op = "terminate"
        BY <4>1 DEF ShutsDown, TaskOK, ShutdownOps
      <4>3. task[p].pc \notin {"idle", "terminate"}
        BY <1>0, <4>2 DEF EntryInv
      <4>4. task[p].pc \notin {"queued", "sent"}
        BY <4>1, <4>2 DEF TaskOK, CallOps
      <4>5. task[p].pc \notin {"awaitSpawn", "saving"}
        BY <2>1, <2>3, <4>2
      <4>6. task[p].pc # "closeClient"
        <5>1. OpenOK(wk[v]) /\ UpOK(wk[v]) /\ Live(wk[v])
          BY <2>1, <2>3, Basics DEF PoolSafe, EntryInv
        <5>2. wk[v].state # "DEAD"
          BY <5>1, DeadIsOver
        <5> QED BY <1>0, <4>2, <5>2 DEF EntryInv
      <4> QED BY <4>1, <4>3, <4>4, <4>5, <4>6 DEF TaskRec, TaskFields, TaskPCs
    <3>2. \A t \in Requests : Same(t)
      BY <1>3 DEF AbortShutdown, Same, ShutdownOps, Tasks
    <3>3. \A t \in Tasks : t \in Requests \/ t \in Paths
      BY DEF Tasks
    <3> QED BY <1>0, <3>1, <3>2, <3>3, StaysUnless
  <2>4. Own
    <3>1. \A p \in Paths : \/ task'[p] = Idle
                          \/ \E w : task'[p] = Job("reap", "awaitSpawn", w, NoSession)
      BY <1>0, <1>3, PathsAreNotRequests DEF AbortShutdown
    <3>2. \A p \in Paths : task'[p].op # "open"
      <4>1. Idle.op # "open" /\ \A w : Job("reap", "awaitSpawn", w, NoSession).op = "reap"
        BY DEF Job, Idle
      <4> QED BY <3>1, <4>1
    <3>3. phase' # "serving"
      BY <1>3 DEF AbortShutdown
    <3> QED BY <3>2, <3>3 DEF Own
  <2> HIDE DEF cut
  <2> QED BY <2>1, <2>2, <2>3, <2>4 DEF HoldStep, Holds, LeavesTo
<1>4. ASSUME NEW p \in Paths, ForceClose(p) PROVE HoldStep
  <2>1. Fades(wk') /\ task[p].op \in ShutdownOps
    BY <1>0, <1>4 DEF ForceClose, ShutdownOps
  <2> QED BY <1>0, <1>4, <2>1, HoldGoesOn DEF ForceClose
<1>5. CASE ShutdownDone
  BY <1>5, HoldQuiet
<1> QED
  BY <1>1, <1>2, <1>3, <1>4, <1>5 DEF Stopping, TerminateMissing, ShutdownDeadline

\* While no client cancels a request: CancelRequest drops detach_all's remaining
\* workers, and then nobody shuts them down.
LEMMA HoldNext ==
  ASSUME TypeOK, PoolSafe, EntryInv, HeldInv, ~Cancels, [Next]_vars PROVE HoldStep
<1>1. CASE Client
  <2>1. \A t \in Requests : ~CancelRequest(t)
    BY DEF CancelRequest
  <2> QED BY <1>1, <2>1, HoldClient, HoldQuiet, HoldStopping DEF Client, Connected
<1>2. CASE \E w \in Workers : Spawning(w)
  BY <1>2, HoldSpawning
<1>3. CASE \E t \in Tasks : Calling(t) \/ Closing(t)
  BY <1>3, HoldCalling, HoldClosing
<1>4. CASE \E w \in Workers : ProcessDies(w) \/ ProcessReaped(w) \/ DeathWatch(w)
  BY <1>4, HoldQuiet
<1>5. CASE Stopping
  BY <1>5, HoldStopping
<1>6. CASE UNCHANGED vars
  BY <1>6, HoldQuiet
<1> QED BY <1>1, <1>2, <1>3, <1>4, <1>5, <1>6 DEF Next

\* Paths do not change once a worker has one, and a new worker is the last.
LEMMA PathsStay ==
  ASSUME TypeOK, PoolSafe, [Next]_vars, RegistryStep
  PROVE  /\ \A p \in Paths, v \in Workers :
              /\ workers'[p] # NoWorker /\ wk'[v].path = p
              /\ \A q \in Paths, u \in Workers :
                   workers[q] # NoWorker /\ wk[u].path = q => u <= workers[q]
              => v <= workers'[p]
         /\ \A w \in Workers : w \in Registered' \/ (Succeeds(w) /\ Live(wk[w]) => Succeeds(w)')
<1>0. /\ PoolInv /\ created \in Nat /\ NoWorker \notin Workers
      /\ \A v \in Workers : v \in Nat /\ WorkerOK(v)
      /\ \A p \in Paths : workers[p] \in Workers \cup {NoWorker}
  BY Basics DEF PoolSafe
<1>1. \A v \in Workers : v > created => wk[v] = NewWorker
  BY <1>0 DEF WorkerOK
<1>2. CASE Shrinks /\ \A v \in Workers : Ages(wk[v], wk'[v])
  <2>1. \A v \in Workers : wk'[v].path = wk[v].path
    BY <1>2 DEF Ages
  <2> QED BY <1>2, <2>1 DEF Shrinks, Succeeds
<1>3. ASSUME NEW n \in Workers, NEW p0 \in Paths, Enrolled(n, p0), wk[n] = NewWorker,
             \A v \in Workers : v # n => Ages(wk[v], wk'[v])
      PROVE  /\ \A p \in Paths, v \in Workers :
                  /\ workers'[p] # NoWorker /\ wk'[v].path = p
                  /\ \A q \in Paths, u \in Workers :
                       workers[q] # NoWorker /\ wk[u].path = q => u <= workers[q]
                  => v <= workers'[p]
             /\ \A w \in Workers : w \in Registered' \/ (Succeeds(w) /\ Live(wk[w]) => Succeeds(w)')
  <2>1. \A v \in Workers : v # n => wk'[v].path = wk[v].path
    BY <1>3 DEF Ages
  <2>2. \A p \in Paths : workers'[p] = IF p = p0 THEN n ELSE workers[p]
    BY <1>3 DEF Enrolled, TypeOK
  <2>3. n = created + 1 /\ wk'[n].path = p0
    BY <1>3 DEF Enrolled
  <2>4. NewWorker.path = NoPath /\ NoPath \notin Paths /\ ~Live(NewWorker)
    BY PoolAssumption DEF NewWorker, Live
  <2>5. \A v \in Workers : v > n => wk'[v].path \notin Paths
    BY <1>0, <1>1, <2>1, <2>3, <2>4
  <2>6. n \in Registered'
    BY <1>0, <2>2 DEF Registered
  <2>7. \A w \in Workers : Live(wk[w]) => w <= created
    BY <1>0, <1>1, <2>4
  <2>8. \A w \in Workers : Succeeds(w) /\ Live(wk[w]) => Succeeds(w)'
    <3> SUFFICES ASSUME NEW w \in Workers, NEW v \in Workers, v < w,
                        wk[v].path = wk[w].path, Live(wk[w])
                 PROVE  wk'[v].path = wk'[w].path
      BY DEF Succeeds
    <3>1. v # n /\ w # n
      BY <1>0, <2>3, <2>7
    <3> QED BY <2>1, <3>1
  <2>9. ASSUME NEW p \in Paths, NEW v \in Workers, workers'[p] # NoWorker, wk'[v].path = p,
               \A q \in Paths, u \in Workers :
                 workers[q] # NoWorker /\ wk[u].path = q => u <= workers[q]
        PROVE  v <= workers'[p]
    <3>1. CASE p = p0
      BY <1>0, <2>2, <2>5, <2>9, <3>1
    <3>2. CASE p # p0
      BY <2>1, <2>2, <2>3, <2>9, <3>2
    <3> QED BY <3>1, <3>2
  <2> QED BY <2>8, <2>9
<1> QED BY <1>2, <1>3, ListedLater

LEMMA HeldInvNext ==
  ASSUME TypeOK, PoolSafe, EntryInv, HeldInv, ~Cancels, [Next]_vars PROVE HeldInv'
<1>1. HoldStep /\ RegistryStep
  BY HoldNext, EntryNext DEF EntryStep
<1>2. \A p \in Paths, v \in Workers :
        workers'[p] # NoWorker /\ wk'[v].path = p => v <= workers'[p]
  BY <1>1, PathsStay DEF HeldInv
<1>3. Own
  BY <1>1 DEF HoldStep
<1>4. ASSUME NEW w \in Workers, Live(wk'[w]), ~Succeeds(w)' PROVE Held(w)'
  <2>1. CASE w \in Registered'
    BY <2>1 DEF Held
  <2>2. CASE w \notin Registered'
    <3>1. StaysWith(w) /\ LeavesTo(w) /\ Live(wk[w])
      BY <1>1, <1>4, <2>2 DEF HoldStep, Holds
    <3>2. ~Succeeds(w)
      BY <1>1, <1>4, <2>2, <3>1, PathsStay
    <3>3. Held(w)
      BY <3>1, <3>2 DEF HeldInv
    <3>4. \E u \in Tasks : ShutsDown(u, w)'
      BY <2>2, <3>1, <3>2, <3>3 DEF Held, StaysWith, LeavesTo
    <3> QED BY <3>4 DEF Held
  <2> QED BY <2>1, <2>2
<1>5. HeldInv' =
        (/\ \A p \in Paths, v \in Workers :
              workers'[p] # NoWorker /\ wk'[v].path = p => v <= workers'[p]
         /\ phase' = "serving" => \A p \in Paths : task'[p] = Idle
         /\ \A p \in Paths : task'[p].op # "open"
         /\ \A w \in Workers : Live(wk'[w]) /\ ~Succeeds(w)' => Held(w)')
  BY DEF HeldInv, Unused, Live, Idle
<1> QED BY <1>2, <1>3, <1>4, <1>5 DEF Own

LEMMA HeldInvInit == Init => HeldInv
<1> SUFFICES ASSUME Init PROVE HeldInv
  OBVIOUS
<1>1. /\ \A p \in Paths : workers[p] = NoWorker
      /\ \A w \in Workers : wk[w] = NewWorker
      /\ \A t \in Tasks : task[t] = Idle
  BY DEF Init
<1>2. ~Live(NewWorker)
  BY DEF Live, NewWorker
<1> QED BY <1>1, <1>2, PathsAreNotRequests DEF HeldInv, Unused, Idle

\* Where requests are not cancelled, the first worker of a database is never
\* left behind: whatever its open, its sessions and the server's end do, it is
\* listed or some task is shutting it down.
THEOREM FirstWorkersAreHeld == ASSUME ~Cancels PROVE Spec => []OrphansReplaceAnother
<1>1. TypeOK /\ PoolSafe /\ EntryInv /\ HeldInv /\ [Next]_vars => HeldInv'
  BY HeldInvNext
<1>2. HeldInv => OrphansReplaceAnother
  <2> SUFFICES ASSUME HeldInv, NEW w \in Workers, Orphan(w) PROVE Succeeds(w)
    BY DEF OrphansReplaceAnother, Succeeds
  <2>1. Live(wk[w]) /\ ~Held(w)
    BY DEF Orphan, InCharge, Live, Held
  <2> QED BY <2>1 DEF HeldInv
<1> QED BY <1>1, <1>2, HeldInvInit, SafeEntries, PTL DEF Spec

-----------------------------------------------------------------------------
(* No shutdown waits for nothing *)

\* Where a task that shuts a worker down, or cleans up after a failed call, waits.
Ending == {"awaitSpawn", "saving", "closeClient"}

\* It has a worker to wait for, and a spawn task it awaits has only its cleanup left.
GoesOnFrom(r, W) ==
  /\ r.pc \in Ending => r.w \in Workers
  /\ r.pc = "awaitSpawn" => W[r.w].spawn \in Quiet
ShutdownsGoOn == \A t \in Tasks : GoesOnFrom(task[t], wk)

\* The tasks of shutdown_all: there are none but while it runs, and one that is
\* still to terminate its worker runs beside none of the second stage.
StopOps == {"terminate", "reap"}
PathsInv ==
  /\ phase # "stopping" => \A p \in Paths : Unused(p)
  /\ \A p \in Paths :
       /\ task[p].op \in StopOps \cup {"none"}
       /\ task[p].pc = "idle" => Unused(p)
       /\ task[p].pc = "terminate" => /\ task[p].op = "terminate"
                                      /\ \A q \in Paths : task[q].op # "reap"
  /\ \A t \in Requests : task[t].op \notin StopOps

WaitInv == ShutdownsGoOn /\ PathsInv

\* What a step other than shutdown_all's own does to a task.
Turns(t) ==
  \/ Kept(t)
  \/ /\ GoesOnFrom(task'[t], wk')
     /\ t \in Requests => task'[t].op \notin StopOps
     /\ t \in Paths => /\ task'[t].op = task[t].op /\ task[t] # Idle
                       /\ task'[t].pc \notin {"idle", "terminate"}
TurnStep == phase' = phase /\ \A t \in Tasks : Turns(t)

LEMMA CancelledIsQuiet ==
  ASSUME NEW r \in WorkerRec PROVE Cancelled(r).spawn \in Quiet
BY DEF Cancelled, WorkerRec, SpawnPCs, Quiet, Over

LEMMA CancelQuiets ==
  ASSUME NEW W \in WkType, NEW w \in Workers PROVE CancelSpawn(W, w)[w].spawn \in Quiet
<1>1. CancelSpawn(W, w)[w] = Cancelled(W[w]) /\ W[w] \in WorkerRec
  BY DEF CancelSpawn, WkType
<1> QED BY <1>1, CancelledIsQuiet

\* A task that keeps what it was about still waits for something.
LEMMA KeptGoesOn ==
  ASSUME TypeOK, PoolInv, ShutdownsGoOn, LeaseStep, NEW t \in Tasks, Kept(t)
  PROVE  GoesOnFrom(task'[t], wk')
<1>1. CASE task'[t] = Idle
  BY <1>1 DEF GoesOnFrom, Idle, Ending
<1>2. CASE task'[t] = task[t] /\ task[t].pc = "awaitSpawn"
  <2>1. /\ task[t].w \in Workers /\ wk[task[t].w].spawn \in Quiet
        /\ wk[task[t].w].state # "NONE"
    BY <1>2, Basics DEF ShutdownsGoOn, GoesOnFrom, Ending
  <2>2. Ages(wk[task[t].w], wk'[task[t].w])
    BY <2>1 DEF LeaseStep, Born, Granted, Progresses, Moves
  <2> QED BY <1>2, <2>1, <2>2 DEF Ages, GoesOnFrom
<1>3. CASE task'[t] = task[t] /\ task[t].pc # "awaitSpawn"
  BY <1>3 DEF ShutdownsGoOn, GoesOnFrom
<1> QED BY <1>1, <1>2, <1>3 DEF Kept

LEMMA TurnKeeps ==
  ASSUME TypeOK, PoolInv, WaitInv, LeaseStep, TurnStep PROVE WaitInv'
<1>1. ShutdownsGoOn'
  BY KeptGoesOn DEF TurnStep, Turns, ShutdownsGoOn, WaitInv
<1>2. \A p \in Paths : /\ p \in Tasks /\ Turns(p) /\ (task[p] = Idle => task'[p] = Idle)
                       /\ task'[p].op \in {task[p].op, "none"}
  <2> SUFFICES ASSUME NEW p \in Paths
               PROVE  /\ p \in Tasks /\ Turns(p) /\ (task[p] = Idle => task'[p] = Idle)
                      /\ task'[p].op \in {task[p].op, "none"}
    OBVIOUS
  <2>1. p \in Tasks /\ Turns(p)
    BY PathsAreNotRequests DEF TurnStep
  <2>2. Idle.op = "none"
    BY DEF Idle
  <2> QED BY <2>1, <2>2 DEF Turns, Kept
<1>3. phase' # "stopping" => \A p \in Paths : task'[p] = Idle
  BY <1>2 DEF TurnStep, PathsInv, Unused, WaitInv
<1>4. ASSUME NEW p \in Paths
      PROVE  /\ task'[p].op \in StopOps \cup {"none"}
             /\ task'[p].pc = "idle" => task'[p] = Idle
             /\ task'[p].pc = "terminate" => task'[p] = task[p]
  <2>1. task[p].op \in StopOps \cup {"none"} /\ (task[p].pc = "idle" => task[p] = Idle)
    BY DEF PathsInv, WaitInv, Unused
  <2>2. task'[p] = task[p] \/ task'[p] = Idle \/ task'[p].pc \notin {"idle", "terminate"}
    BY <1>2 DEF Turns, Kept
  <2>3. Idle.pc = "idle"
    BY DEF Idle
  <2> QED BY <1>2, <2>1, <2>2, <2>3
<1>5. ASSUME NEW p \in Paths, task'[p].pc = "terminate"
      PROVE  task'[p].op = "terminate" /\ \A q \in Paths : task'[q].op # "reap"
  <2>1. task'[p] = task[p]
    BY <1>4, <1>5
  <2>2. task[p].op = "terminate" /\ \A q \in Paths : task[q].op # "reap"
    BY <1>5, <2>1 DEF PathsInv, WaitInv
  <2> QED BY <1>2, <2>1, <2>2
<1>6. \A t \in Requests : task'[t].op \notin StopOps
  <2>1. Idle.op \notin StopOps /\ Requests \subseteq Tasks
    BY DEF Idle, StopOps, Tasks
  <2> QED BY <2>1 DEF TurnStep, Turns, Kept, PathsInv, WaitInv
<1>7. PathsInv'
  BY <1>3, <1>4, <1>5, <1>6 DEF PathsInv, Unused, Idle
<1> QED BY <1>1, <1>7 DEF WaitInv

\* A task's turn: the call, the shutdown or the cleanup it is about goes on at pc.
LEMMA TurnsOn ==
  ASSUME TypeOK, PoolInv, WaitInv, NEW t \in Tasks, NEW pc \in {"sent", "saving", "closeClient"},
         task[t].pc \in {"queued", "sent", "awaitSpawn", "saving"},
         task'[t] = [task[t] EXCEPT !.pc = pc]
  PROVE  Turns(t)
<1>1. task[t] \in TaskRec /\ TaskOK(t) /\ task[t].w \in Workers \cup {NoWorker}
  BY Basics
<1>2. task'[t].op = task[t].op /\ task'[t].w = task[t].w /\ task'[t].pc = pc
  BY <1>1 DEF TaskRec, TaskFields
<1>3. task[t].w \in Workers
  BY <1>1 DEF TaskOK, WaitInv, ShutdownsGoOn, GoesOnFrom, Ending
<1>4. task[t] # Idle
  BY DEF Idle
<1> QED BY <1>2, <1>3, <1>4 DEF Turns, GoesOnFrom, WaitInv, PathsInv

\* A request starts to call a worker or to shut one down.
LEMMA TurnsTo ==
  ASSUME NEW t \in Requests, task'[t].op \notin StopOps,
         \/ task'[t].pc \notin Ending
         \/ /\ task'[t].pc = "awaitSpawn" /\ task'[t].w \in Workers
            /\ wk'[task'[t].w].spawn \in Quiet
  PROVE  Turns(t)
BY PathsAreNotRequests DEF Turns, GoesOnFrom, Ending

LEMMA OneTurns ==
  ASSUME TypeOK, phase' = phase, NEW t, NEW T \in TaskType, NEW r, task' = [T EXCEPT ![t] = r],
         \A u \in Tasks : T[u] \in {task[u], Idle}, t \in Tasks => r = Idle \/ Turns(t)
  PROVE  TurnStep
<1>1. \A u \in Tasks : u # t => Kept(u)
  BY DEF TaskType, Kept
<1>2. t \in Tasks /\ r = Idle => Kept(t)
  BY DEF TaskType, Kept
<1> QED BY <1>1, <1>2 DEF TurnStep, Turns

LEMMA NoTurn ==
  ASSUME phase' = phase, UNCHANGED task PROVE TurnStep
BY DEF TurnStep, Turns, Kept

LEMMA SpawnWorkerTurns ==
  ASSUME TypeOK, NEW t, NEW s, NEW p, NEW W, SpawnWorker(t, s, p, W) PROVE TurnStep
<1>1. task \in TaskType /\ task' = [task EXCEPT ![t] = Idle] /\ phase' = phase
  BY WkIsTyped DEF SpawnWorker
<1> QED BY <1>1, OneTurns

LEMMA TurnSpawning ==
  ASSUME TypeOK, NEW w \in Workers, Spawning(w) PROVE TurnStep
<1>1. CASE SpawnReady(w)
  <2>1. ASSUME NEW t \in Requests,
               task' = [task EXCEPT ![t] = Job("analysis", "queued", w, NoSession)]
        PROVE  TurnStep
    <3>1. task \in TaskType /\ t \in Tasks /\ phase' = phase
      BY <1>1, WkIsTyped DEF Tasks, SpawnReady
    <3>2. task'[t].op = "analysis" /\ task'[t].pc = "queued"
      BY <2>1, <3>1, JobFields DEF TaskType
    <3>3. Turns(t)
      BY <3>2, TurnsTo DEF StopOps, Ending
    <3> HIDE DEF Turns
    <3> QED BY <2>1, <3>1, <3>3, OneTurns
  <2> QED BY <1>1, <2>1, NoTurn DEF SpawnReady
<1> QED BY <1>1, NoTurn DEF Spawning, SpawnStart, SpawnStaleClosed, SpawnCommit, SpawnFails,
                            SpawnMarkFailed, SpawnRemove

\* Task t goes on at pc, and ends tasks of T.
LEMMA PcTurns ==
  ASSUME TypeOK, PoolInv, WaitInv, NEW t \in Tasks, phase' = phase,
         NEW pc \in {"sent", "saving", "closeClient"},
         task[t].pc \in {"queued", "sent", "awaitSpawn", "saving"},
         NEW T \in TaskType, T[t] = task[t], \A u \in Tasks : T[u] \in {task[u], Idle},
         task' = [T EXCEPT ![t].pc = pc]
  PROVE  TurnStep
<1>1. task'[t] = [task[t] EXCEPT !.pc = pc]
  BY DEF TaskType
<1>2. Turns(t)
  BY <1>1, TurnsOn
<1>3. task' = [T EXCEPT ![t] = [task[t] EXCEPT !.pc = pc]]
  OBVIOUS
<1> QED BY <1>2, <1>3, OneTurns

LEMMA TurnCalling ==
  ASSUME TypeOK, PoolInv, WaitInv, NEW t \in Tasks, Calling(t) PROVE TurnStep
<1>0. task \in TaskType /\ phase' = phase
  BY WkIsTyped DEF Calling, QueuedDispatch, CallReturns, CallFails
<1>1. CASE CallReturns(t)
  <2>1. task' = [task EXCEPT ![t] = Idle]
    BY <1>1 DEF CallReturns
  <2> QED BY <1>0, <2>1, OneTurns
<1>2. CASE QueuedDispatch(t) \/ CallFails(t)
  <2>1. PICK pc \in {"sent", "closeClient"} : task' = [task EXCEPT ![t].pc = pc]
    BY <1>2 DEF QueuedDispatch, CallFails, MarkDead
  <2>2. task[t].pc \in {"queued", "sent"}
    BY <1>2 DEF QueuedDispatch, CallFails
  <2> QED BY <1>0, <2>1, <2>2, PcTurns
<1> QED BY <1>1, <1>2 DEF Calling

LEMMA TurnClosing ==
  ASSUME TypeOK, PoolInv, WaitInv, NEW t \in Tasks, Closing(t) \/ (t \in Paths /\ ForceClose(t))
  PROVE  TurnStep
<1> DEFINE w == task[t].w
           rest == WithoutAnalysis(task, w)
<1>0. /\ task \in TaskType /\ rest \in TaskType /\ task[t] \in TaskRec /\ TaskOK(t)
      /\ wk \in WkType
  BY WkIsTyped, WithoutAnalysisType, Basics
<1>1. CASE SpawnAwaited(t) \/ ForceClose(t)
  <2>1. PICK pc \in {"saving", "closeClient"} : task' = [rest EXCEPT ![t].pc = pc]
    BY <1>1 DEF SpawnAwaited, ForceClose
  <2>2. task[t].pc = "awaitSpawn" /\ phase' = phase
    BY <1>1 DEF SpawnAwaited, ForceClose
  <2>3. rest[t] = task[t] /\ \A u \in Tasks : rest[u] \in {task[u], Idle}
    BY <2>2, AnalysisGone
  <2> HIDE DEF rest
  <2> QED BY <1>0, <2>1, <2>2, <2>3, PcTurns
<1>2. CASE SaveEnds(t)
  BY <1>0, <1>2, PcTurns DEF SaveEnds
<1>3. CASE ClientClosed(t)
  <2> DEFINE closed == [wk EXCEPT ![w].client = FALSE]
  <2>1. CASE task' = [task EXCEPT ![t] = Idle] /\ phase' = phase
    BY <1>0, <2>1, OneTurns
  <2>2. CASE SpawnWorker(t, task[t].s, task[t].path, closed)
    BY <2>2, SpawnWorkerTurns
  <2>3. ASSUME task[t].op = "open", NEW v \in task[t].todo, wk' = CancelSpawn(closed, v),
               task' = [task EXCEPT ![t] = NowClosing(task[t], v)], phase' = phase
        PROVE  TurnStep
    <3>1. t \in Requests
      BY <2>3 DEF Tasks, WaitInv, PathsInv, StopOps
    <3>2. v \in Workers
      BY <2>3, Basics
    <3>3. closed \in WkType
      BY <1>0, RetireType DEF WkType
    <3>4. wk'[v].spawn \in Quiet
      <4> HIDE DEF closed
      <4> QED BY <2>3, <3>2, <3>3, CancelQuiets
    <3>5. task'[t].op = "open" /\ task'[t].pc = "awaitSpawn" /\ task'[t].w = v
      BY <1>0, <2>3 DEF NowClosing, TaskType, TaskRec, TaskFields
    <3>6. Turns(t)
      BY <3>1, <3>2, <3>4, <3>5, TurnsTo DEF StopOps
    <3> QED BY <1>0, <2>3, <3>6, OneTurns
  <2> HIDE DEF closed
  <2> QED BY <1>3, <2>1, <2>2, <2>3 DEF ClientClosed, closed
<1> QED BY <1>1, <1>2, <1>3 DEF Closing

LEMMA TurnClient ==
  ASSUME TypeOK, PoolInv, WaitInv, NEW t \in Requests, NEW s \in Sessions, NEW p \in Paths,
         \/ OpenDatabase(t, s, p) \/ OpenDetaching(t, s, p)
         \/ ToolCall(t, s, p) \/ ReadResource(t, s, p) \/ StartAnalysis(t, s, p)
         \/ JoinAnalysis(s, p) \/ CloseDetaches(t, s, p) \/ LateCall(t, s, p)
         \/ \E force \in BOOLEAN : SaveDatabase(t, s, p, force) \/ CloseTerminates(t, s, p, force)
  PROVE  TurnStep
<1>0. task \in TaskType /\ wk \in WkType /\ t \in Tasks
  BY WkIsTyped DEF Tasks
<1>1. ASSUME NEW r, task' = [task EXCEPT ![t] = r], phase' = phase, r.op \notin StopOps,
             \/ r.pc \notin Ending
             \/ r.pc = "awaitSpawn" /\ r.w \in Workers /\ wk'[r.w].spawn \in Quiet
      PROVE  TurnStep
  <2>1. task'[t] = r
    BY <1>0, <1>1 DEF TaskType
  <2>2. Turns(t)
    BY <1>1, <2>1, TurnsTo
  <2> QED BY <1>0, <1>1, <2>2, OneTurns
<1>2. ASSUME NEW op \in {"tool", "save", "analysis"}, NEW pc \in {"queued", "sent"},
             NEW w, NEW x, task' = [task EXCEPT ![t] = Job(op, pc, w, x)], phase' = phase
      PROVE  TurnStep
  BY <1>1, <1>2, JobFields DEF StopOps, Ending
<1>3. CASE OpenDatabase(t, s, p)
  BY <1>3, SpawnWorkerTurns DEF OpenDatabase
<1>4. CASE OpenDetaching(t, s, p)
  <2> DEFINE held == {w \in Active : s \in wk[w].sessions}
             last == {w \in held : wk[w].sessions = {s}}
             detached == Detach(wk, held, s)
  <2>1. last \subseteq Workers /\ detached \in WkType
    BY <1>0, DetachType, RegisteredWorkers DEF Active
  <2>2. ASSUME NEW w \in last, wk' = CancelSpawn(detached, w),
               task' = [task EXCEPT ![t] =
                          [Job("open", "awaitSpawn", w, s)
                             EXCEPT !.todo = last \ {w}, !.path = p]],
               phase' = phase
        PROVE  TurnStep
    <3> DEFINE r == [Job("open", "awaitSpawn", w, s) EXCEPT !.todo = last \ {w}, !.path = p]
    <3>1. r.op = "open" /\ r.pc = "awaitSpawn" /\ r.w = w
      BY DEF Job, Idle
    <3>2. w \in Workers
      BY <2>1
    <3> HIDE DEF detached, last
    <3>3. wk'[w].spawn \in Quiet
      BY <2>1, <2>2, <3>2, CancelQuiets
    <3>4. task' = [task EXCEPT ![t] = r]
      BY <2>2
    <3> HIDE DEF r
    <3> QED BY <1>1, <2>2, <3>1, <3>2, <3>3, <3>4 DEF StopOps
  <2> HIDE DEF last, held, detached
  <2> QED BY <1>4, <2>2, SpawnWorkerTurns DEF OpenDetaching, last, held, detached
<1>5. CASE ToolCall(t, s, p) \/ ReadResource(t, s, p)
  BY <1>2, <1>5 DEF ToolCall, ReadResource, Dispatch
<1>6. CASE StartAnalysis(t, s, p)
  BY <1>2, <1>6 DEF StartAnalysis
<1>7. CASE JoinAnalysis(s, p) \/ CloseDetaches(t, s, p)
  BY <1>7, NoTurn DEF JoinAnalysis, CloseDetaches
<1>8. ASSUME NEW force \in BOOLEAN, SaveDatabase(t, s, p, force) PROVE TurnStep
  BY <1>2, <1>8 DEF SaveDatabase
<1>9. ASSUME NEW force \in BOOLEAN, CloseTerminates(t, s, p, force) PROVE TurnStep
  <2>1. PICK w \in Workers, op \in {"forceClose", "close"} :
          /\ wk' = CancelSpawn(Detach(wk, {w}, s), w)
          /\ task' = [task EXCEPT ![t] = Job(op, "awaitSpawn", w, s)]
          /\ phase' = phase
    BY <1>9 DEF CloseTerminates, CloseOp
  <2>2. op \notin StopOps
    BY DEF StopOps
  <2>3. wk'[w].spawn \in Quiet
    BY <1>0, <2>1, DetachType, CancelQuiets
  <2> DEFINE r == Job(op, "awaitSpawn", w, s)
  <2>4. r.op = op /\ r.pc = "awaitSpawn" /\ r.w = w /\ task' = [task EXCEPT ![t] = r]
    BY <2>1, JobFields
  <2> HIDE DEF r
  <2> QED BY <1>1, <2>1, <2>2, <2>3, <2>4
<1>10. CASE LateCall(t, s, p)
  BY <1>2, <1>10 DEF LateCall
<1> QED BY <1>3, <1>4, <1>5, <1>6, <1>7, <1>8, <1>9, <1>10

LEMMA TurnCancel ==
  ASSUME TypeOK, PoolInv, WaitInv, NEW t \in Requests, CancelRequest(t) PROVE TurnStep
<1> DEFINE w == task[t].w
           T == IF task[t].pc \in {"awaitSpawn", "saving"} THEN WithoutAnalysis(task, w) ELSE task
<1>0. /\ task \in TaskType /\ t \in Tasks /\ task[t] \in TaskRec
      /\ t \in Requests => t \notin Paths
  BY WkIsTyped, Basics, PathsAreNotRequests DEF Tasks
<1>1. T \in TaskType /\ T[t] = task[t] /\ \A u \in Tasks : T[u] \in {task[u], Idle}
  BY <1>0, WithoutAnalysisType, AnalysisGone
<1>2. task' = [T EXCEPT ![t] = LeftBehind(T[t])] /\ phase' = phase
  BY DEF CancelRequest
<1> HIDE DEF T
<1>3. task'[t] = LeftBehind(task[t])
  BY <1>0, <1>1, <1>2 DEF TaskType
<1>4. CASE task[t].op = "save"
  <2>1. TaskOK(t)
    BY Basics, <1>0
  <2>2. /\ task'[t].op = "save" /\ task'[t].w = task[t].w /\ task'[t].pc = task[t].pc
        /\ task[t].pc # "awaitSpawn"
    BY <1>0, <1>3, <1>4, <2>1 DEF LeftBehind, TaskRec, TaskFields, TaskOK, CallOps
  <2>3. task[t].pc \in Ending => task[t].w \in Workers
    BY <1>0 DEF WaitInv, ShutdownsGoOn, GoesOnFrom
  <2>4. Turns(t)
    BY <1>0, <2>2, <2>3 DEF Turns, GoesOnFrom, StopOps
  <2> QED BY <1>1, <1>2, <2>4, OneTurns
<1>5. CASE task[t].op # "save"
  <2>1. LeftBehind(T[t]) = Idle
    BY <1>1, <1>5 DEF LeftBehind
  <2> QED BY <1>1, <1>2, <2>1, OneTurns
<1> QED BY <1>4, <1>5

LEMMA TurnRest ==
  ASSUME \/ \E s \in Sessions : Disconnect(s) \/ DisconnectUnnoticed(s) \/ Connect(s)
         \/ \E w \in Workers : ProcessDies(w) \/ ProcessReaped(w) \/ DeathWatch(w)
         \/ UNCHANGED vars
  PROVE  TurnStep
BY NoTurn DEF Disconnect, DisconnectUnnoticed, Connect,
              ProcessDies, ProcessReaped, DeathWatch, vars

LEMMA ShutdownWaits ==
  ASSUME TypeOK, PoolInv, WaitInv, Shutdown PROVE WaitInv'
<1> DEFINE job == Job("terminate", "terminate", NoWorker, NoSession)
<1>1. /\ \A t \in Tasks : task'[t] = task[t] \/ (t \in Paths /\ task'[t] = job)
      /\ \A p \in Paths : task[p] = Idle
      /\ wk' = wk /\ phase' = "stopping"
  BY DEF Shutdown, WaitInv, PathsInv, Unused
<1>2. job.op = "terminate" /\ job.pc = "terminate"
  BY JobFields
<1>3. Idle.op = "none" /\ Idle.pc = "idle"
  BY DEF Idle
<1>4. \A t \in Tasks : t \in Requests => t \notin Paths
  BY PathsAreNotRequests
<1>5. Requests \subseteq Tasks /\ Paths \subseteq Tasks
  BY DEF Tasks
<1> HIDE DEF job
<1>6. ShutdownsGoOn'
  BY <1>1, <1>2 DEF ShutdownsGoOn, GoesOnFrom, WaitInv, Ending
<1>7. \A p \in Paths : task'[p] = Idle \/ task'[p] = job
  BY <1>1, <1>5
<1>8. \A t \in Requests : task'[t].op \notin StopOps
  BY <1>1, <1>4, <1>5 DEF WaitInv, PathsInv
<1>9. \A p \in Paths : /\ task'[p].op \in {"terminate", "none"}
                       /\ task'[p].pc = "idle" => task'[p] = Idle
                       /\ task'[p].pc = "terminate" => task'[p].op = "terminate"
  BY <1>2, <1>3, <1>7
<1>10. PathsInv'
  BY <1>1, <1>8, <1>9 DEF PathsInv, Unused, StopOps, Idle
<1> QED BY <1>6, <1>10 DEF WaitInv

LEMMA AbortWaits ==
  ASSUME TypeOK, PoolInv, WaitInv, LeaseStep, AbortShutdown PROVE WaitInv'
<1> DEFINE job(p) == Job("reap", "awaitSpawn", workers[p], NoSession)
<1>0. wk \in WkType /\ phase' = phase /\ phase = "stopping"
  BY WkIsTyped DEF AbortShutdown
<1>1. /\ \A t \in Requests : task'[t] = task[t] \/ task'[t] = Idle
      /\ \A p \in Paths : \/ task'[p] = Idle
                          \/ workers[p] # NoWorker /\ task'[p] = job(p)
  BY PathsAreNotRequests DEF AbortShutdown, Tasks
<1>2. \A p \in Paths : job(p).op = "reap" /\ job(p).pc = "awaitSpawn" /\ job(p).w = workers[p]
  BY JobFields
<1>3. Idle.op = "none" /\ Idle.pc = "idle"
  BY DEF Idle
<1>4. ASSUME NEW v \in Workers, v \in Registered PROVE wk'[v].spawn \in Quiet
  <2>1. wk'[v] = CutShort(wk, v)[v] \/ wk'[v] = CancelSpawn(wk, v)[v]
    BY <1>4 DEF AbortShutdown
  <2>2. CancelSpawn(wk, v)[v].spawn \in Quiet
    BY <1>0, CancelQuiets
  <2>3. CutShort(wk, v)[v].spawn = CancelSpawn(wk, v)[v].spawn
    <3> DEFINE C == CancelSpawn(wk, v)
    <3>1. C \in WkType
      BY <1>0, CancelSpawnType
    <3>2. CutShort(wk, v) = [C EXCEPT ![v] = Ended(C[v])]
      BY DEF CutShort, Dying
    <3> HIDE DEF C
    <3>3. CutShort(wk, v)[v] = Ended(C[v]) /\ C[v] \in WorkerRec
      BY <3>1, <3>2 DEF WkType
    <3>4. Ended(C[v]).spawn = C[v].spawn
      BY <3>3 DEF Ended, WorkerRec
    <3> QED BY <3>3, <3>4 DEF C
  <2> QED BY <2>1, <2>2, <2>3
<1>5. \A p \in Paths : workers[p] # NoWorker => workers[p] \in Workers /\ workers[p] \in Registered
  BY Basics DEF Registered
<1> HIDE DEF job
<1>6. ShutdownsGoOn'
  <2> SUFFICES ASSUME NEW t \in Tasks PROVE GoesOnFrom(task'[t], wk')
    BY DEF ShutdownsGoOn
  <2>1. CASE Kept(t)
    BY <2>1, KeptGoesOn DEF WaitInv
  <2>2. ASSUME t \in Paths, workers[t] # NoWorker, task'[t] = job(t)
        PROVE  GoesOnFrom(task'[t], wk')
    BY <1>2, <1>4, <1>5, <2>2 DEF GoesOnFrom
  <2> QED BY <1>1, <2>1, <2>2 DEF Kept, Tasks
<1>7. \A p \in Paths : /\ task'[p].op \in {"reap", "none"}
                       /\ task'[p].pc = "idle" => task'[p] = Idle
                       /\ task'[p].pc # "terminate"
  BY <1>1, <1>2, <1>3
<1>8. \A t \in Requests : task'[t].op \notin StopOps
  BY <1>1, <1>3 DEF WaitInv, PathsInv, StopOps
<1>9. PathsInv'
  BY <1>0, <1>7, <1>8 DEF PathsInv, Unused, StopOps, Idle
<1> QED BY <1>6, <1>9 DEF WaitInv

LEMMA StoppingWaits ==
  ASSUME TypeOK, PoolInv, WaitInv, LeaseStep, Stopping PROVE WaitInv'
<1>1. ASSUME NEW p \in Paths, TerminateWorker(p) PROVE WaitInv'
  <2> DEFINE job == Job("terminate", "awaitSpawn", workers[p], NoSession)
  <2>1. workers[p] \in Workers /\ wk \in WkType /\ task \in TaskType /\ p \in Tasks
    BY <1>1, Basics, WkIsTyped DEF TerminateWorker, Tasks
  <2>2. wk' = CancelSpawn(wk, workers[p]) /\ task' = [task EXCEPT ![p] = job] /\ phase' = phase
    BY <1>1 DEF TerminateWorker
  <2>3. wk'[workers[p]].spawn \in Quiet
    BY <2>1, <2>2, CancelQuiets
  <2>4. job.op = "terminate" /\ job.pc = "awaitSpawn" /\ job.w = workers[p]
    BY JobFields
  <2> HIDE DEF job
  <2>5. task'[p] = job
    BY <2>1, <2>2 DEF TaskType
  <2>6. task[p].op = "terminate" /\ task[p] # Idle
    BY <1>1 DEF TerminateWorker, WaitInv, PathsInv, Idle
  <2>7. Turns(p)
    BY <2>1, <2>3, <2>4, <2>5, <2>6, PathsAreNotRequests DEF Turns, GoesOnFrom
  <2>8. TurnStep
    BY <2>1, <2>2, <2>7, OneTurns
  <2> QED BY <2>8, TurnKeeps
<1>2. ASSUME NEW p \in Paths, ForceClose(p) PROVE WaitInv'
  <2>1. TurnStep
    BY <1>2, PathsAreNotRequests, TurnClosing
  <2> QED BY <2>1, TurnKeeps
<1>3. CASE ShutdownDone
  <2>1. UNCHANGED <<wk, task>> /\ \A p \in Paths : Unused(p)
    BY <1>3 DEF ShutdownDone
  <2> QED BY <2>1 DEF WaitInv, ShutdownsGoOn, PathsInv, Unused, Idle
<1> QED BY <1>1, <1>2, <1>3, AbortWaits DEF Stopping, TerminateMissing, ShutdownDeadline

LEMMA WaitInvNext ==
  ASSUME TypeOK, PoolSafe, WaitInv, [Next]_vars PROVE WaitInv'
<1>0. PoolInv /\ LeaseStep
  BY StepLeases DEF PoolSafe
<1>1. TurnStep => WaitInv'
  BY <1>0, TurnKeeps
<1>2. CASE Client
  <2>1. CASE Shutdown
    BY <1>0, <2>1, ShutdownWaits
  <2>2. CASE ~Shutdown
    <3>1. TurnStep
      BY <1>0, <1>2, <2>2, TurnClient, TurnCancel, TurnRest DEF Client, Connected
    <3> QED BY <1>1, <3>1
  <2> QED BY <2>1, <2>2
<1>3. CASE \E w \in Workers : Spawning(w)
  BY <1>1, <1>3, TurnSpawning
<1>4. CASE \E t \in Tasks : Calling(t) \/ Closing(t)
  <2>1. TurnStep
    BY <1>0, <1>4, TurnCalling, TurnClosing
  <2> QED BY <1>1, <2>1
<1>5. CASE (\E w \in Workers : ProcessDies(w) \/ ProcessReaped(w) \/ DeathWatch(w)) \/ UNCHANGED vars
  BY <1>1, <1>5, TurnRest
<1>6. CASE Stopping
  BY <1>0, <1>6, StoppingWaits
<1> QED BY <1>2, <1>3, <1>4, <1>5, <1>6 DEF Next

LEMMA SafeWaits == Spec => [](TypeOK /\ PoolSafe /\ WaitInv)
<1>1. Init => WaitInv
  BY PathsAreNotRequests DEF Init, WaitInv, ShutdownsGoOn, PathsInv, GoesOnFrom, Unused, Idle,
     Ending, StopOps, Tasks
<1>2. TypeOK /\ PoolSafe /\ WaitInv /\ [Next]_vars => WaitInv'
  BY WaitInvNext
<1> QED BY <1>1, <1>2, Safe, PTL DEF Spec

\* No shutdown, close, detach or cleanup waits for what may never happen: a task
\* that awaits a spawn task has cancelled it, so that the open, whose call to the
\* worker has no deadline, has only its cleanup left.
THEOREM ShutdownsNeverHang == Spec => []ShutdownsGoOn
<1>1. WaitInv => ShutdownsGoOn
  BY DEF WaitInv
<1> QED BY <1>1, SafeWaits, PTL

\* The guards of the steps shutdown_all's task p takes next.
StopCanStep(p) ==
  \/ task[p].pc = "terminate" /\ workers[p] # NoWorker
  \/ /\ task[p].pc = "terminate" /\ phase = "stopping" /\ task[p].op = "terminate"
     /\ \A q \in Paths : task[q].op \in {"none", "terminate"}
  \/ task[p].pc = "awaitSpawn" /\ wk[task[p].w].spawn \in Quiet
  \/ task[p].pc \in {"saving", "closeClient"}

\* The server's end waits for nothing either: each task of shutdown_all that is
\* left has its step to take or waits for the cleanup of a cancelled open or for a
\* process that is being killed, whatever entries were dropped under its feet.
THEOREM StoppingNeverHangs ==
  Spec => [](phase = "stopping" => \A p \in Paths : Unused(p) \/ StopCanStep(p))
<1>1. TypeOK /\ PoolSafe /\ WaitInv
        => (phase = "stopping" => \A p \in Paths : Unused(p) \/ StopCanStep(p))
  <2> SUFFICES ASSUME TypeOK, PoolSafe, WaitInv, phase = "stopping", NEW p \in Paths, ~Unused(p)
               PROVE  StopCanStep(p)
    OBVIOUS
  <2>1. p \in Tasks /\ task[p] \in TaskRec /\ TaskOK(p) /\ GoesOnFrom(task[p], wk)
    BY Basics DEF Tasks, PoolSafe, WaitInv, ShutdownsGoOn
  <2>2. task[p].pc \notin {"idle", "queued", "sent"}
    BY <2>1 DEF TaskOK, WaitInv, PathsInv, StopOps, CallOps
  <2>3. CASE task[p].pc = "terminate"
    <3>1. task[p].op = "terminate" /\ \A q \in Paths : task[q].op \in {"none", "terminate"}
      BY <2>3 DEF WaitInv, PathsInv, StopOps
    <3> QED BY <2>3, <3>1 DEF StopCanStep
  <2>4. CASE task[p].pc \in {"awaitSpawn", "saving", "closeClient"}
    BY <2>1, <2>4 DEF StopCanStep, GoesOnFrom
  <2> QED BY <2>1, <2>2, <2>3, <2>4 DEF TaskRec, TaskFields, TaskPCs
<1> QED BY <1>1, SafeWaits, PTL
=============================================================================
