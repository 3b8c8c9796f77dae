------------------------------ MODULE Analysis ------------------------------
(***************************************************************************)
(* What a request that waits for a database is told: the ready event, the  *)
(* analysis task and the close of a Worker, and the requests that wait on  *)
(* them (wait_for_ready, wait_for_ready_multi, run_analysis).              *)
(*                                                                         *)
(* Each database is one Worker object, opened once; WorkerPool.tla has the *)
(* registry, the sessions and the replacement of workers.  An action is    *)
(* the code between two awaits of the event loop, and a task that was      *)
(* woken runs in a step of its own, after whatever else was ready first.   *)
(***************************************************************************)
EXTENDS Naturals, Sequences, FiniteSets

CONSTANTS Dbs,          \* databases, one Worker each
          Callers,      \* slots for requests in flight
          MaxExplicit   \* bound: analyze_database calls that start a pass

ASSUME AnalysisAssumption == MaxExplicit \in Nat

SpawnPCs == {"created", "opening", "logging", "failing", "removing", "done"}
ClosePCs == {"no", "awaitSpawn", "awaitAnalysis", "saving", "closed"}
PassPCs == {"created", "calling", "refresh", "losing", "report", "done"}
ChildPCs == {"none", "start", "opening", "joining", "done"}
Answers == {"none", "withdrawn", "ready", "pending", "failed", "spawnFailed",
            "analysisFailed", "cancelled", "result", "noResult"}

DbRec ==
  [spawn : SpawnPCs,          \* where _spawn_task is suspended
   auto : BOOLEAN,            \* run_auto_analysis
   state : {"STARTING", "IDLE", "DEAD"},
   listed : BOOLEAN,          \* the worker is in _workers
   connected : BOOLEAN,       \* client is set
   ready : BOOLEAN,           \* _ready_event is set
   spawnError : BOOLEAN, analyzed : BOOLEAN, error : BOOLEAN,
   task : Nat,                \* _analysis_task, an index of passes or 0
   last : Nat,                \* the pass of _last_analysis_result, or 0
   close : ClosePCs,          \* where _shutdown_worker is suspended
   awaited : Nat]             \* the task its cancel_analysis awaits
PassRec ==
  [pc : PassPCs, by : {"wait", "tool", "auto"}, cancel : BOOLEAN,
   result : {"none", "ok", "error"}, end : {"none", "finished", "cancelled"}]
CallerRec ==
  [op : {"none", "wait", "multi", "analyze"}, want : SUBSET Dbs,
   child : [Dbs -> ChildPCs],  \* one task per wanted database, or the request
   on : [Dbs -> Nat],          \* the pass it joined
   answer : Answers,
   got : Nat]                  \* the pass whose result was returned

VARIABLES db,      \* the Worker of each database
          passes,  \* the analysis tasks ever created for it, in order
          caller   \* the requests

vars == <<db, passes, caller>>

NewDb(auto) ==
  [spawn |-> "created", auto |-> auto, state |-> "STARTING", listed |-> TRUE,
   connected |-> FALSE, ready |-> FALSE, spawnError |-> FALSE,
   analyzed |-> FALSE, error |-> FALSE, task |-> 0, last |-> 0,
   close |-> "no", awaited |-> 0]

NewPass(by) == [pc |-> "created", by |-> by, cancel |-> FALSE,
                result |-> "none", end |-> "none"]

NewCall(op, want) ==
  [op |-> op, want |-> want, child |-> [d \in Dbs |-> "none"],
   on |-> [d \in Dbs |-> 0], answer |-> "none", got |-> 0]

Init ==
  /\ \E auto \in [Dbs -> BOOLEAN] : db = [d \in Dbs |-> NewDb(auto[d])]
  /\ passes = [d \in Dbs |-> <<>>]
  /\ caller = [c \in Callers |-> NewCall("none", {})]

-----------------------------------------------------------------------------
(* Reading a worker *)

Running(d, n) == n \in DOMAIN passes[d] /\ passes[d][n].pc # "done"
Analyzing(d) == Running(d, db[d].task)

\* Mutant of Opening: judged by the state, as before the fix of #5.
OpeningByState(d) == db[d].state = "STARTING"

\* Worker.opening; a worker in the pool always has its spawn task.
Opening(d) == ~db[d].ready

\* The guard of _ensure_analysis_started.
NeedsAnalysis(d) ==
  /\ ~db[d].analyzed
  /\ ~Analyzing(d)
  /\ ~db[d].error
  /\ db[d].state = "IDLE"

Free(c) == caller[c].op = "none" \/ caller[c].answer # "none"

\* _worker_status without a status: what the multi-database wait reports.
Status(d) ==
  IF db[d].spawnError THEN "error"
  ELSE IF Opening(d) THEN "opening"
  ELSE IF Analyzing(d) THEN "analyzing"
  ELSE IF db[d].error THEN "error" ELSE "ready"

\* Worker.start_analysis with no task running; r is d's record.
StartPass(d, r, by) ==
  /\ passes' = [passes EXCEPT ![d] = Append(@, NewPass(by))]
  /\ db' = [db EXCEPT ![d] = [r EXCEPT !.error = FALSE,
                                       !.task = Len(passes[d]) + 1]]

\* mark_worker_dead up to its await, and with it the end of the client.
Dropped(r) == [r EXCEPT !.listed = FALSE, !.state = "DEAD"]
Lost(r) == [Dropped(r) EXCEPT !.connected = FALSE]

-----------------------------------------------------------------------------
(* The spawn task *)

SpawnStart(d) ==
  /\ db[d].spawn = "created"
  /\ db' = [db EXCEPT ![d].spawn = "opening"]
  /\ UNCHANGED <<passes, caller>>

\* The worker is published and may say that it was analyzed before; the
\* client is told, and only then is the event set.
SpawnOpens(d) ==
  /\ db[d].spawn = "opening"
  /\ \E analyzed \in BOOLEAN :
       db' = [db EXCEPT ![d] = [@ EXCEPT !.spawn = "logging", !.state = "IDLE",
                !.connected = TRUE, !.analyzed = analyzed /\ ~db[d].auto]]
  /\ UNCHANGED <<passes, caller>>

SpawnReady(d) ==
  LET r == [db[d] EXCEPT !.spawn = "done", !.ready = TRUE]
  IN  /\ db[d].spawn = "logging"
      /\ IF r.auto /\ ~Analyzing(d) THEN StartPass(d, r, "auto")
         ELSE db' = [db EXCEPT ![d] = r] /\ UNCHANGED passes
      /\ UNCHANGED caller

SpawnFails(d) ==
  /\ db[d].spawn = "opening"
  /\ db' = [db EXCEPT ![d].spawn = "failing"]
  /\ UNCHANGED <<passes, caller>>

\* Mutant of Failed: the waiters are not woken.
FailedSilently(r) == [r EXCEPT !.spawn = "done", !.spawnError = TRUE,
                               !.state = "DEAD"]

\* _mark_failed and what follows it: the entry stays, DEAD, with its error.
Failed(r) == [r EXCEPT !.spawn = "done", !.spawnError = TRUE,
                       !.state = "DEAD", !.ready = TRUE]

SpawnMarkFailed(d) ==
  /\ db[d].spawn = "failing"
  /\ db' = [db EXCEPT ![d] = Failed(@)]
  /\ UNCHANGED <<passes, caller>>

\* The spawn task is cancelled: before its first step its body never runs; in
\* its own cleanup the cancellation leaves it; elsewhere it runs _remove.
CancelSpawn(r) ==
  [r EXCEPT !.spawn = IF @ \in {"created", "failing"} THEN "done"
                                                      ELSE "removing"]

SpawnRemoved(d) ==
  /\ db[d].spawn = "removing"
  /\ db' = [db EXCEPT ![d] = [@ EXCEPT !.spawn = "done", !.listed = FALSE,
                                       !.spawnError = TRUE, !.ready = TRUE]]
  /\ UNCHANGED <<passes, caller>>

-----------------------------------------------------------------------------
(* The analysis task, pass n of database d *)

\* A pass that is being cancelled takes no other step than PassCancelled.
At(d, n, pc) == /\ n \in DOMAIN passes[d]
                /\ passes[d][n].pc = pc
                /\ ~passes[d][n].cancel

PassBecomes(d, n, p) == passes' = [passes EXCEPT ![d] = [@ EXCEPT ![n] = p]]

PassAt(d, n, pc) == PassBecomes(d, n, [passes[d][n] EXCEPT !.pc = pc])

\* The pass has its result.
PassHas(d, n, pc, result) ==
  PassBecomes(d, n, [passes[d][n] EXCEPT !.pc = pc, !.result = result])

PassOver(d, n, end) ==
  PassBecomes(d, n, [passes[d][n] EXCEPT !.pc = "done", !.end = end])

\* proxy_to_worker: the call is sent, or there is no client any more and the
\* worker is marked dead.
PassCalls(d, n) ==
  /\ At(d, n, "created")
  /\ IF db[d].connected THEN PassAt(d, n, "calling") /\ UNCHANGED db
     ELSE PassAt(d, n, "losing") /\ db' = [db EXCEPT ![d] = Dropped(@)]
  /\ UNCHANGED caller

\* Success: mark_analyzed, then perhaps a second call for the counts.
PassSucceeds(d, n) ==
  /\ At(d, n, "calling")
  /\ \E next \in {"refresh", "report"} : PassHas(d, n, next, "ok")
  /\ db' = [db EXCEPT ![d] = [@ EXCEPT !.last = n, !.analyzed = TRUE,
                                       !.error = FALSE]]
  /\ UNCHANGED caller

\* Mutant of WithError: the error is logged and not recorded.
WithErrorLogged(r, n) == [r EXCEPT !.last = n]

\* The result is kept, then record_analysis_error.
WithError(r, n) == [r EXCEPT !.last = n, !.error = TRUE]

PassFails(d, n) ==
  /\ At(d, n, "calling")
  /\ PassHas(d, n, "report", "error")
  /\ db' = [db EXCEPT ![d] = WithError(@, n)]
  /\ UNCHANGED caller

\* The connection is lost during a call: mark_worker_dead, then its await.
PassLosesWorker(d, n) ==
  /\ At(d, n, "calling") \/ At(d, n, "refresh")
  /\ PassAt(d, n, "losing")
  /\ db' = [db EXCEPT ![d] = Dropped(@)]
  /\ UNCHANGED caller

\* Only the loss of the analysis call itself is an error of the pass.
PassLost(d, n) ==
  /\ At(d, n, "losing")
  /\ IF passes[d][n].result = "none"
     THEN /\ PassHas(d, n, "report", "error")
          /\ db' = [db EXCEPT ![d] = WithError(Lost(@), n)]
     ELSE PassAt(d, n, "report") /\ db' = [db EXCEPT ![d] = Lost(@)]
  /\ UNCHANGED caller

PassRefreshed(d, n) ==
  /\ At(d, n, "refresh")
  /\ PassAt(d, n, "report")
  /\ UNCHANGED <<db, caller>>

PassEnds(d, n) ==
  /\ At(d, n, "report")
  /\ PassOver(d, n, "finished")
  /\ UNCHANGED <<db, caller>>

PassCancelled(d, n) ==
  /\ Running(d, n)
  /\ passes[d][n].cancel
  /\ PassOver(d, n, "cancelled")
  /\ UNCHANGED <<db, caller>>

-----------------------------------------------------------------------------
(* Closing: _shutdown_worker, after its caller took the worker out of       *)
(* _workers.  There is one, as WorkerPool's OneShutdown says.               *)

\* Mutant of Cancelling: waits for the analysis without cancelling it.
CancellingNot(d, n) == UNCHANGED passes

Cancelling(d, n) ==
  PassBecomes(d, n, [passes[d][n] EXCEPT !.cancel = TRUE])

\* cancel_analysis; r is d's record.
CancelAnalysis(d, r) ==
  IF Analyzing(d)
  THEN /\ Cancelling(d, r.task)
       /\ db' = [db EXCEPT ![d] = [r EXCEPT !.close = "awaitAnalysis",
                                            !.awaited = r.task]]
  ELSE /\ db' = [db EXCEPT ![d] = [r EXCEPT !.close = "saving", !.task = 0]]
       /\ UNCHANGED passes

Close(d) ==
  LET r == [db[d] EXCEPT !.listed = FALSE]
  IN  /\ db[d].listed
      /\ IF r.spawn = "done" THEN CancelAnalysis(d, r)
         ELSE /\ db' = [db EXCEPT ![d] = [CancelSpawn(r) EXCEPT
                                            !.close = "awaitSpawn"]]
              /\ UNCHANGED passes
      /\ UNCHANGED caller

CloseSpawnOver(d) ==
  /\ db[d].close = "awaitSpawn"
  /\ db[d].spawn = "done"
  /\ CancelAnalysis(d, db[d])
  /\ UNCHANGED caller

\* Mutant of Forgotten: cancel_analysis clears whatever task is there.
ForgottenAlways(r) == [r EXCEPT !.task = 0]

\* cancel_analysis's finally: "if self._analysis_task is task".
Forgotten(r) == [r EXCEPT !.task = IF @ = r.awaited THEN 0 ELSE @]

CloseAnalysisOver(d) ==
  /\ db[d].close = "awaitAnalysis"
  /\ ~Running(d, db[d].awaited)
  /\ db' = [db EXCEPT ![d] = [Forgotten(@) EXCEPT !.close = "saving",
                                                  !.awaited = 0]]
  /\ UNCHANGED <<passes, caller>>

\* close_database answers, fails or times out; then _close_client.
CloseEnds(d) ==
  /\ db[d].close = "saving"
  /\ db' = [db EXCEPT ![d] = [@ EXCEPT !.close = "closed", !.state = "DEAD",
                                       !.connected = FALSE]]
  /\ UNCHANGED <<passes, caller>>

\* The death watcher: the entry stays.
WorkerDies(d) ==
  /\ db[d].spawn = "done"
  /\ db[d].state = "IDLE"
  /\ db' = [db EXCEPT ![d].state = "DEAD"]
  /\ UNCHANGED <<passes, caller>>

\* Some other call to the worker fails: mark_worker_dead.
CallLosesWorker(d) ==
  /\ db[d].connected
  /\ db' = [db EXCEPT ![d] = Lost(@)]
  /\ UNCHANGED <<passes, caller>>

-----------------------------------------------------------------------------
(* The requests.  r is the caller's record. *)

Becomes(c, r) == caller' = [caller EXCEPT ![c] = r]

Reply(r, answer, got) ==
  [r EXCEPT !.answer = answer, !.got = got, !.child = [d \in Dbs |-> "none"]]

\* A child task of a multi-database wait ends; a single wait replies with what
\* the worker says NOW.
Released(r, d) ==
  IF r.op = "multi" THEN [r EXCEPT !.child[d] = "done"]
  ELSE Reply(r, IF db[d].error THEN "analysisFailed" ELSE "ready", 0)

Joined(r, d, n) == [r EXCEPT !.child[d] = "joining", !.on[d] = n]

\* From the end of the open on: the spawn error, then _await_analysis.
AwaitAnalysis(c, r, d) ==
  \/ /\ db[d].spawnError
     /\ Becomes(c, IF r.op = "multi" THEN [r EXCEPT !.child[d] = "done"]
                   ELSE Reply(r, "spawnFailed", 0))
     /\ UNCHANGED <<db, passes>>
  \/ /\ ~db[d].spawnError
     /\ NeedsAnalysis(d)
     /\ StartPass(d, db[d], "wait")
     /\ Becomes(c, Joined(r, d, Len(passes[d]) + 1))
  \/ /\ ~db[d].spawnError
     /\ ~NeedsAnalysis(d)
     /\ Becomes(c, IF Analyzing(d) THEN Joined(r, d, db[d].task)
                   ELSE Released(r, d))
     /\ UNCHANGED <<db, passes>>

AwaitOpen(c, r, d) ==
  IF Opening(d)
  THEN Becomes(c, [r EXCEPT !.child[d] = "opening"]) /\ UNCHANGED <<db, passes>>
  ELSE AwaitAnalysis(c, r, d)

\* wait_for_ready finds the worker whatever its state.
Wait(c, d) ==
  /\ Free(c)
  /\ db[d].listed
  /\ AwaitOpen(c, NewCall("wait", {d}), d)

\* wait_for_ready_multi creates a task per database; they start later.
WaitMulti(c, D) ==
  /\ Free(c)
  /\ \A d \in D : db[d].listed
  /\ Becomes(c, [NewCall("multi", D) EXCEPT
                   !.child = [d \in Dbs |-> IF d \in D THEN "start" ELSE "none"]])
  /\ UNCHANGED <<db, passes>>

ChildStarts(c, d) ==
  /\ caller[c].child[d] = "start"
  /\ AwaitOpen(c, caller[c], d)

OpenAwaited(c, d) ==
  /\ caller[c].child[d] = "opening"
  /\ db[d].ready
  /\ AwaitAnalysis(c, caller[c], d)

\* The passes analyze_database started.
Explicit(d) ==
  Cardinality({n \in DOMAIN passes[d] : passes[d][n].by = "tool"})

\* run_analysis, for analyze_database: resolve_worker wants a live worker; join or
\* start the task.
RunAnalysis(c, d) ==
  LET r == NewCall("analyze", {d})
  IN  /\ Free(c)
      /\ db[d].listed
      /\ db[d].state = "IDLE"
      /\ \/ /\ Analyzing(d)
            /\ Becomes(c, Joined(r, d, db[d].task))
            /\ UNCHANGED <<db, passes>>
         \/ /\ ~Analyzing(d)
            /\ Explicit(d) < MaxExplicit
            /\ StartPass(d, db[d], "tool")
            /\ Becomes(c, Joined(r, d, Len(passes[d]) + 1))

\* The shielded task is over.  A cancelled one cancels the shield, so the
\* request ends with CancelledError; otherwise it reads the worker NOW.
JoinEnds(c, d) ==
  LET r == caller[c]
      n == r.on[d]
  IN  /\ r.child[d] = "joining"
      /\ ~Running(d, n)
      /\ Becomes(c,
           IF r.op = "multi" THEN [r EXCEPT !.child[d] = "done"]
           ELSE IF passes[d][n].end = "cancelled" THEN Reply(r, "cancelled", 0)
           ELSE IF r.op = "wait" THEN Released(r, d)
           ELSE IF db[d].error THEN Reply(r, "analysisFailed", 0)
           ELSE IF db[d].last = 0 THEN Reply(r, "noResult", 0)
           ELSE Reply(r, "result", db[d].last))
      /\ UNCHANGED <<db, passes>>

\* The first child that is over wakes the request, which cancels the others
\* and reports the databases.
MultiAnswers(c) ==
  LET r == caller[c]
      says == {Status(d) : d \in r.want}
  IN  /\ r.op = "multi"
      /\ \E d \in r.want : r.child[d] = "done"
      /\ Becomes(c, Reply(r, IF "ready" \in says THEN "ready"
                             ELSE IF says = {"error"} THEN "failed"
                             ELSE "pending", 0))
      /\ UNCHANGED <<db, passes>>

\* Mutant of Withdrawn: the analysis is awaited without the shield.
WithdrawnUnshielded(c) ==
  passes' = [d \in Dbs |->
    [n \in DOMAIN passes[d] |->
       IF caller[c].child[d] = "joining" /\ caller[c].on[d] = n /\ Running(d, n)
       THEN [passes[d][n] EXCEPT !.cancel = TRUE] ELSE passes[d][n]]]

\* asyncio.shield: the task goes on without the request.
Withdrawn(c) == UNCHANGED passes

\* The client cancels the request, or its timeout does.
CancelCall(c) ==
  /\ ~Free(c)
  /\ Becomes(c, Reply(caller[c], "withdrawn", 0))
  /\ Withdrawn(c)
  /\ UNCHANGED db

-----------------------------------------------------------------------------
SpawnStep(d) ==
  \/ SpawnStart(d)
  \/ SpawnReady(d)
  \/ SpawnMarkFailed(d)
  \/ SpawnRemoved(d)
PassStep(d, n) ==
  \/ PassCalls(d, n)
  \/ PassLost(d, n)
  \/ PassEnds(d, n)
  \/ PassCancelled(d, n)
CloseStep(d) ==
  \/ CloseSpawnOver(d)
  \/ CloseAnalysisOver(d)
  \/ CloseEnds(d)
CallerStep(c) ==
  \/ \E d \in Dbs : ChildStarts(c, d) \/ OpenAwaited(c, d) \/ JoinEnds(c, d)
  \/ MultiAnswers(c)

\* What the worker process answers, or fails to.
WorkerAnswers(d) ==
  \/ SpawnOpens(d)
  \/ SpawnFails(d)
  \/ WorkerDies(d)
  \/ CallLosesWorker(d)
  \/ \E n \in DOMAIN passes[d] :
       \/ PassSucceeds(d, n)
       \/ PassFails(d, n)
       \/ PassLosesWorker(d, n)
       \/ PassRefreshed(d, n)

Calls(c) ==
  \/ \E d \in Dbs : Wait(c, d) \/ RunAnalysis(c, d)
  \/ \E D \in (SUBSET Dbs) \ {{}} : WaitMulti(c, D)
  \/ CancelCall(c)

Next ==
  \/ \E d \in Dbs : \/ SpawnStep(d)
                    \/ \E n \in DOMAIN passes[d] : PassStep(d, n)
                    \/ Close(d)
                    \/ CloseStep(d)
                    \/ WorkerAnswers(d)
  \/ \E c \in Callers : Calls(c) \/ CallerStep(c)

Spec == Init /\ [][Next]_vars

\* The event loop runs what is ready, and a close ends within its 60 seconds.
\* Opens and analyses have no deadline: nothing is assumed of WorkerAnswers.
FairSpec ==
  /\ Spec
  /\ \A d \in Dbs :
       /\ WF_vars(SpawnStep(d))
       /\ WF_vars(\E n \in DOMAIN passes[d] : PassStep(d, n))
       /\ WF_vars(CloseStep(d))
  /\ \A c \in Callers : WF_vars(CallerStep(c))

-----------------------------------------------------------------------------
(* Properties *)

\* Every variable keeps its type.
TypeOK ==
  /\ db \in [Dbs -> DbRec]
  /\ passes \in [Dbs -> Seq(PassRec)]
  /\ caller \in [Callers -> CallerRec]

\* Whatever starts an analysis, the open, a waiting request or the tool, and
\* whenever a close forgets one, a worker has at most one running analysis and
\* _analysis_task is it: none runs on where nobody can join or cancel it.
OneAnalysis ==
  \A d \in Dbs : \A n \in DOMAIN passes[d] : Running(d, n) => db[d].task = n

\* A request joins a pass that exists; a closing worker waits for one that its
\* close cancelled.
JoinsExist ==
  /\ \A c \in Callers, d \in Dbs :
       caller[c].child[d] = "joining" => caller[c].on[d] \in DOMAIN passes[d]
  /\ \A d \in Dbs :
       db[d].close = "awaitAnalysis" =>
         /\ db[d].awaited \in DOMAIN passes[d]
         /\ Running(d, db[d].awaited) => passes[d][db[d].awaited].cancel

\* The invariant of the proofs.
AnalysisInv == TypeOK /\ OneAnalysis /\ JoinsExist

\* wait_for_analysis tells nobody anything about a database whose open has not
\* signalled the ready event, whatever the state of the worker (#5).
Told(c) == ~Free(c) \/ caller[c].answer \in {"none", "withdrawn"}
WaitsForOpening ==
  \A c \in Callers : Told(c) \/
    /\ caller[c].op = "wait" => \A d \in caller[c].want : db[d].ready
    /\ caller[c].op = "multi" => \E d \in caller[c].want : db[d].ready

\* Withdrawing or timing out a request that waits for an analysis leaves the
\* analysis to the other requests: only a close cancels one.
OnlyCloseCancelsAnalysis ==
  \A d \in Dbs : \A n \in DOMAIN passes[d] :
    passes[d][n].cancel => db[d].close # "no"

\* Waiting starts the analysis of a worker that nobody closes at most once: after
\* a pass of any origin has been started none is, whatever became of it.
AnalysedOnce ==
  [][\A d \in Dbs :
       /\ Len(passes'[d]) > Len(passes[d])
       /\ passes'[d][Len(passes'[d])].by = "wait"
       /\ db[d].close = "no"
       => passes[d] = <<>>]_vars

\* A close gets past the spawn and the analysis it cancels, and ends.
CloseTerminates ==
  \A d \in Dbs : db[d].close # "no" ~> db[d].close = "closed"

\* A request that waits for one database is answered, unless the worker never
\* answers, or a close cut the open short before it could signal.
Silent(d) ==
  \/ db[d].spawn = "opening"
  \/ \E n \in DOMAIN passes[d] : passes[d][n].pc \in {"calling", "refresh"}
CutShort(d) == db[d].spawn = "done" /\ ~db[d].ready /\ db[d].close # "no"
WaitersReleased ==
  \A c \in Callers, d \in Dbs :
    ~Free(c) /\ caller[c].op = "wait" /\ d \in caller[c].want
      ~> Free(c) \/ CutShort(d) \/ [](Silent(d))

\* _background_spawn "Sets worker._ready_event when the database is open and the
\* worker is ready to accept tool calls (or on failure)" (worker_provider.py:1587).
SpawnAlwaysSignals == \A d \in Dbs : db[d].spawn = "done" => db[d].ready

\* wait_for_analysis: "Block until database(s) finish opening and are analyzed"
\* (supervisor.py:182): told that its database is ready, the caller has an
\* analyzed one.
ReadyIsAnalyzed ==
  [][\A c \in Callers :
       /\ caller[c].answer = "none"
       /\ caller'[c].answer = "ready"
       /\ caller'[c].op = "wait"
       => \A d \in caller'[c].want : db'[d].analyzed]_vars

\* wait_for_ready_multi: "Returns as soon as at least one database is ready (or
\* all have failed)" (worker_provider.py:1343).
MultiAnswersReady ==
  \A c \in Callers :
    caller[c].op = "multi" => caller[c].answer # "pending"

\* run_analysis: "Raises ToolError when the pass failed" (worker_provider.py:1722):
\* a result is returned only where the pass that was joined had succeeded.
FailedPassRaises ==
  \A c \in Callers :
    caller[c].answer = "result" =>
      \A d \in caller[c].want : passes[d][caller[c].on[d]].result = "ok"

\* run_analysis ends with a ToolError where the analysis was cancelled:
\* "finished without a result (worker closed or task cancelled)"
\* (worker_provider.py:1737).
CancelledIsToolError ==
  \A c \in Callers : caller[c].op = "analyze" => caller[c].answer # "cancelled"
=============================================================================
