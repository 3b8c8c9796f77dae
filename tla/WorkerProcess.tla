---------------------------- MODULE WorkerProcess ----------------------------
(***************************************************************************)
(* A worker process: the MCP server's event loop runs on a daemon thread,  *)
(* the engine's calls run on the main thread, and MainThreadExecutor's     *)
(* queue stands between them.  The main thread also takes the signals and, *)
(* in main's finally, saves the database before the process ends.          *)
(*                                                                         *)
(* The two threads interleave: a future may be cancelled between any two   *)
(* steps of run_forever.  A signal's handler runs on the main thread, when *)
(* an engine call returns at the latest.                                   *)
(***************************************************************************)
EXTENDS Naturals, Sequences

CONSTANTS Calls,      \* tool calls sent to the worker
          Stop,       \* MainThreadExecutor._SENTINEL
          None,       \* no call
          HandlesUsr1 \* does the backend handle SIGUSR1 (IDA), or die of it (Ghidra)?

ASSUME ProcessAssumption ==
  /\ Stop \notin Calls
  /\ None \notin Calls
  /\ HandlesUsr1 \in BOOLEAN

\* open_database, close_database, a tool that uses the database, and an async
\* tool: require_open's check, then the body, each a job of its own.
Ops == {"open", "close", "tool", "asyncTool"}

\* A call's future: "step" is an async tool between its jobs, "interrupted" the
\* error Cancelled, "exit" a SystemExit that was raised in the job.
Futures == {"none", "pending", "step", "result", "error", "interrupted", "exit",
            "cancelled"}

\* "left" is main's finally, until the join of the MCP thread is over.
MainPCs == {"waiting", "running", "answering", "left", "saving", "exited"}

VARIABLES call,  \* per call: what it does, its future, whether its check is done,
                 \* and whether the supervisor's request for it was cancelled
          queue, \* _queue: calls, and the sentinel
          main,  \* the main thread: pc, the job it runs and its outcome, why it
                 \* left run_forever, and how the process ended
          loop,  \* the MCP thread: serving, draining (stdin closed), or ended
          db,    \* the session's database: closed, clean or dirty
          flag,  \* the engine's cancellation flag
          usr1   \* is a SIGUSR1 on its way?

vars == <<call, queue, main, loop, db, flag, usr1>>

Init ==
  /\ call = [c \in Calls |-> [op |-> "tool", fut |-> "none", checked |-> FALSE,
                              withdrawn |-> FALSE]]
  /\ queue = <<>>
  /\ main = [pc |-> "waiting", job |-> None, outcome |-> "none", why |-> "none",
             end |-> "none"]
  /\ loop = "serving"
  /\ db = "closed"
  /\ flag = FALSE
  /\ usr1 = FALSE

-----------------------------------------------------------------------------
(* The event loop's thread *)

\* dispatch_to_main: run_in_executor submits.
Submitted(c, op, checked) ==
  /\ call' = [call EXCEPT ![c].op = op, ![c].fut = "pending",
                          ![c].checked = checked]
  /\ queue' = Append(queue, c)

Submit(c) ==
  /\ loop = "serving"
  /\ call[c].fut = "none"
  /\ \E op \in Ops : Submitted(c, op, FALSE)
  /\ UNCHANGED <<main, loop, db, flag, usr1>>

\* The coroutine of an async tool goes on from its check to its body.
Resume(c) ==
  /\ loop # "ended"
  /\ call[c].fut = "step"
  /\ Submitted(c, "asyncTool", TRUE)
  /\ UNCHANGED <<main, loop, db, flag, usr1>>

\* The supervisor's request for the call is cancelled, or times out, before it
\* has seen the answer: _signal_cancel.
Withdraw(c) ==
  /\ call[c].fut # "none"
  /\ ~call[c].withdrawn
  /\ call' = [call EXCEPT ![c].withdrawn = TRUE]
  /\ usr1' = TRUE
  /\ UNCHANGED <<queue, main, loop, db, flag>>

\* The MCP server cancels a handler, as it ends or for a withdrawn request; the
\* executor never marks a future as running, so this succeeds in a running job.
CancelFuture(c) ==
  /\ call[c].withdrawn \/ loop = "draining"
  /\ loop # "ended"
  /\ call[c].fut \in {"pending", "step"}
  /\ call' = [call EXCEPT ![c].fut = "cancelled"]
  /\ UNCHANGED <<queue, main, loop, db, flag, usr1>>

\* Mutant of StdinQueues: the sentinel is queued as soon as stdin closes.
StdinQueuesStop == Append(queue, Stop)

StdinQueues == queue

StdinCloses ==
  /\ loop = "serving"
  /\ loop' = "draining"
  /\ queue' = StdinQueues
  /\ UNCHANGED <<call, main, db, flag, usr1>>

\* Mutant of Shutdown: the executor is not told.
ShutdownNot == queue

\* MainThreadExecutor.shutdown
Shutdown == Append(queue, Stop)

\* mcp.run returns once its handlers are done, or raises the SystemExit that
\* came back from a job; either way the finally shuts the executor down.
LoopEnds ==
  /\ \/ /\ loop = "draining"
        /\ \A c \in Calls : call[c].fut \notin {"pending", "step"}
     \/ /\ loop # "ended"
        /\ \E c \in Calls : call[c].fut = "exit"
  /\ loop' = "ended"
  /\ queue' = Shutdown
  /\ UNCHANGED <<call, main, db, flag, usr1>>

-----------------------------------------------------------------------------
(* The main thread *)

\* An async tool's first job is require_open's check alone.
Checks(c) == call[c].op = "asyncTool" /\ ~call[c].checked
NeedsOpen(c) == call[c].op \in {"tool", "asyncTool"}

\* run_forever takes the next item.
Taken ==
  IF Head(queue) = Stop THEN [main EXCEPT !.pc = "left", !.why = "stop"]
  ELSE IF call[Head(queue)].fut = "cancelled" THEN main
  ELSE [main EXCEPT !.pc = "running", !.job = Head(queue)]

\* A tool clears the flag in its check, at the start of its first job.
Take ==
  /\ main.pc = "waiting"
  /\ queue # <<>>
  /\ queue' = Tail(queue)
  /\ main' = Taken
  /\ flag' = IF /\ main'.pc = "running" /\ NeedsOpen(main'.job)
                /\ ~call[main'.job].checked /\ db # "closed"
             THEN FALSE ELSE flag
  /\ UNCHANGED <<call, loop, db, usr1>>

\* The outcomes of a job, and what it may do to the database: open_database
\* saves and closes the open one first, close_database forgets it even if it
\* fails.
Outcomes(c) ==
  IF NeedsOpen(c) /\ db = "closed" THEN {"error"}
  ELSE IF Checks(c) THEN {"step"}
  ELSE {"result", "error"} \cup
       (IF flag /\ NeedsOpen(c) THEN {"interrupted"} ELSE {})

Effects(c, outcome) ==
  CASE call[c].op = "open" /\ outcome = "result" -> {"clean"}
    [] call[c].op = "open" /\ outcome # "result" -> {db, "closed"}
    [] call[c].op = "close" -> {"closed"}
    [] OTHER -> IF db = "closed" \/ Checks(c) THEN {db} ELSE {db, "dirty"}

\* The job returns or raises, and the future is not cancelled yet.
JobEnds ==
  /\ main.pc = "running"
  /\ \E o \in Outcomes(main.job) :
       /\ db' \in Effects(main.job, o)
       /\ main' = IF call[main.job].fut = "cancelled"
                  THEN [main EXCEPT !.pc = "waiting", !.job = None]
                  ELSE [main EXCEPT !.pc = "answering", !.outcome = o]
  /\ UNCHANGED <<call, queue, loop, flag, usr1>>

\* set_result or set_exception.  A future cancelled since the test raises
\* InvalidStateError, which leaves run_forever.
Answer ==
  LET c == main.job
  IN  /\ main.pc = "answering"
      /\ \/ /\ call[c].fut = "cancelled"
            /\ main' = [main EXCEPT !.pc = "left", !.job = None, !.why = "invalid"]
            /\ UNCHANGED call
         \/ /\ call[c].fut # "cancelled"
            /\ call' = [call EXCEPT ![c].fut = main.outcome]
            /\ main' = [main EXCEPT !.pc = "waiting", !.job = None]
      /\ UNCHANGED <<queue, loop, db, flag, usr1>>

\* Mutant of Joined: the join has no timeout.
JoinedForever == loop = "ended"

\* mcp_thread.join(timeout=5)
Joined == TRUE

JoinEnds ==
  /\ main.pc = "left"
  /\ Joined
  /\ main' = [main EXCEPT !.pc = "saving"]
  /\ UNCHANGED <<call, queue, loop, db, flag, usr1>>

\* Mutant of Saved: what is open stays so.
SavedNot == db

\* session.close(save=True), if a database is open.
Saved == "closed"

SaveOnExit ==
  /\ main.pc = "saving"
  /\ db' = Saved
  /\ main' = [main EXCEPT !.pc = "exited", !.end = "exit"]
  /\ UNCHANGED <<call, queue, loop, flag, usr1>>

-----------------------------------------------------------------------------
(* Signals *)

\* SIGTERM raises SystemExit wherever the main thread is: in the loop it leads
\* to main's finally, in the finally it ends the process, before or after the
\* engine has saved.
Sigterm ==
  /\ \/ /\ main.pc = "waiting"
        /\ main' = [main EXCEPT !.pc = "left", !.why = "signal"]
        /\ UNCHANGED <<call, db>>
     \/ /\ main.pc = "running"
        /\ db' \in Effects(main.job, "error")
        /\ call' = [call EXCEPT ![main.job].fut =
                      IF @ = "cancelled" THEN @ ELSE "exit"]
        /\ main' = [main EXCEPT !.pc = "left", !.job = None, !.why = "signal"]
     \/ /\ main.pc = "answering"
        /\ main' = [main EXCEPT !.pc = "left", !.job = None, !.why = "signal"]
        /\ UNCHANGED <<call, db>>
     \/ /\ main.pc = "left"
        /\ main' = [main EXCEPT !.pc = "exited", !.end = "cut"]
        /\ UNCHANGED <<call, db>>
     \/ /\ main.pc = "saving"
        /\ db' \in {db, "closed"}
        /\ main' = [main EXCEPT !.pc = "exited", !.end = "cut"]
        /\ UNCHANGED call
  /\ UNCHANGED <<queue, loop, flag, usr1>>

\* SIGUSR1 sets the flag, whatever the main thread runs by now.
Sigusr1 ==
  /\ usr1
  /\ main.pc # "exited"
  /\ usr1' = FALSE
  /\ IF HandlesUsr1
     THEN flag' = TRUE /\ UNCHANGED main
     ELSE main' = [main EXCEPT !.pc = "exited", !.end = "usr1"] /\ UNCHANGED flag
  /\ UNCHANGED <<call, queue, loop, db>>

\* SIGKILL, or a crash of the engine.
Kill ==
  /\ main.pc # "exited"
  /\ main' = [main EXCEPT !.pc = "exited", !.end = "killed"]
  /\ UNCHANGED <<call, queue, loop, db, flag, usr1>>

-----------------------------------------------------------------------------
LoopStep ==
  /\ main.pc # "exited"
  /\ \/ StdinCloses
     \/ LoopEnds
     \/ \E c \in Calls : Submit(c) \/ Resume(c) \/ Withdraw(c) \/ CancelFuture(c)

MainStep == Take \/ JobEnds \/ Answer \/ JoinEnds \/ SaveOnExit

Next == LoopStep \/ MainStep \/ Sigterm \/ Sigusr1 \/ Kill

Spec == Init /\ [][Next]_vars

\* Both threads run, and the join has a deadline.  Nothing is assumed of the
\* engine's calls (JobEnds, SaveOnExit), of stdin or of signals.
FairSpec ==
  /\ Spec
  /\ WF_vars(Take) /\ WF_vars(Answer) /\ WF_vars(JoinEnds)
  /\ WF_vars(main.pc # "exited" /\ LoopEnds)
  /\ \A c \in Calls : WF_vars(main.pc # "exited" /\ Resume(c))

-----------------------------------------------------------------------------
(* Properties *)

\* Every variable keeps its type.
TypeOK ==
  /\ call \in [Calls -> [op : Ops, fut : Futures, checked : BOOLEAN,
                         withdrawn : BOOLEAN]]
  /\ queue \in Seq(Calls \cup {Stop})
  /\ main \in [pc : MainPCs, job : Calls \cup {None},
               outcome : {"none", "step", "result", "error", "interrupted"},
               why : {"none", "stop", "signal", "invalid"},
               end : {"none", "exit", "cut", "usr1", "killed"}]
  /\ loop \in {"serving", "draining", "ended"}
  /\ db \in {"closed", "clean", "dirty"}
  /\ flag \in BOOLEAN
  /\ usr1 \in BOOLEAN

\* A call is dispatched once at a time: queued or at work, its future is open or
\* was cancelled.  The main thread leaves the loop once.
Open(c) == call[c].fut \in {"pending", "step"}
Dispatched(c) == call[c].fut \in {"pending", "cancelled"}
AtWork == main.pc \in {"running", "answering"}
QueueOK ==
  /\ \A i \in DOMAIN queue : queue[i] # Stop => Dispatched(queue[i])
  /\ \A i, j \in DOMAIN queue : queue[i] = queue[j] /\ queue[i] # Stop => i = j
  /\ AtWork => /\ main.job \in Calls
               /\ Dispatched(main.job)
               /\ \A i \in DOMAIN queue : queue[i] # main.job
  /\ main.pc = "waiting" \/ AtWork => main.why = "none" /\ main.end = "none"

\* The sentinel is queued by a thread that has ended; it ends with no call open
\* unless a job raised SystemExit, and then the main thread has left.
StopIsLast ==
  /\ \A i \in DOMAIN queue : queue[i] = Stop => loop = "ended"
  /\ main.why = "stop" => loop = "ended"
  /\ loop = "ended" => main.why = "signal" \/ \A c \in Calls : ~Open(c)
  /\ \A c \in Calls : call[c].fut = "exit" => main.why = "signal"

\* The worker's shutdown sentinel overtakes no call: when run_forever stops at it,
\* every call that was dispatched, the later jobs of async tools included, has
\* been answered or cancelled.
StopDrains ==
  main.why = "stop" => \A c \in Calls : ~Open(c)

\* "The worker's main() function calls session.close(save=True) in its finally
\* block on shutdown" (docs/architecture.md:124): a process that ends by itself,
\* for whatever reason it left the loop, leaves no database open.
ExitSaves == main.end = "exit" => db = "closed"

\* The invariant of the proofs.
ProcessInv == TypeOK /\ QueueOK /\ StopIsLast /\ StopDrains /\ ExitSaves

\* An engine call that does not return.
Busy == main.pc \in {"running", "saving"}

\* A dispatched call is answered or cancelled, or its process ends, whatever
\* became of the main loop, unless an engine call never returns.
CallsEnd ==
  \A c \in Calls :
    Open(c) ~> ~Open(c) \/ main.pc = "exited" \/ [](Busy)

\* A worker whose stdin closed, or whose main thread left the loop, ends.
ProcessEnds ==
  loop # "serving" \/ main.why # "none" ~> main.pc = "exited" \/ [](Busy)

\* "Cancelled: operation cancelled via cooperative cancellation"
\* (docs/architecture.md:229): a call fails so if its own request was cancelled.
OnlyWithdrawnInterrupted ==
  \A c \in Calls : call[c].fut = "interrupted" => call[c].withdrawn

\* "SIGTERM raises SystemExit (triggers shutdown cleanup and save)"
\* (docs/architecture.md:129): no SIGTERM costs the changes.
TermSaves == main.end = "cut" => db # "dirty"

\* run_forever outlives a cancelled call ("processing submitted work items",
\* server.py:63).
LoopSurvives == main.why # "invalid"

\* dispatch "signal[s] cancellation on error" (worker_provider.py:438): the signal
\* cancels a call and does not end the worker.
SignalSparesWorker == main.end # "usr1"
=============================================================================
