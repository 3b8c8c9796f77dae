-------------------------------- MODULE Gateway --------------------------------
(***************************************************************************)
(* The daemon's front: the clients that are connected to it, the pings of  *)
(* the proxies among them, the idle monitor that ends the daemon, and the  *)
(* meta-tools that run several tool calls for one request: batch, execute  *)
(* and call.                                                               *)
(*                                                                         *)
(* Everything runs on the daemon's event loop, so an action is the code    *)
(* between two awaits.  A poll of the monitor is one action: the locks it  *)
(* takes are never held across an await, so taking them does not suspend.  *)
(***************************************************************************)
EXTENDS Naturals, Sequences

CONSTANTS
  Clients,          \* stdio proxies, which ping GET /health, and clients that
                    \* talk HTTP themselves and never ping
  MaxOps,           \* bound: operations of a batch, invokes of an execute
  PollInterval,     \* _IDLE_POLL_INTERVAL (10 s)
  KeepaliveTimeout, \* _PROXY_KEEPALIVE_TIMEOUT (90 s)
  IdleLimit,        \* the idle timeout (300 s unless configured)
  MaxSilence        \* bound: the longest time between two pings of a live proxy

\* A proxy pings every 30 s, and a ping that hangs is given up after the read
\* timeout of 300 s: MaxSilence is 30 when none is lost and 330 at the worst.
ASSUME TimingAssumption ==
  /\ PollInterval \in Nat \ {0}
  /\ KeepaliveTimeout \in Nat
  /\ IdleLimit \in Nat \ {0}
  /\ MaxSilence \in Nat
  /\ MaxOps \in Nat \ {0}
  /\ PollInterval < KeepaliveTimeout
  /\ MaxSilence < KeepaliveTimeout + IdleLimit

VARIABLES
  client,  \* per client: its life, whether uvicorn holds a connection and the
           \* pool a registered session of it; of a live proxy also whether it
           \* has pinged, and for how long it has not
  tracker, \* ProxyTracker: was a proxy ever seen, and how long ago
  monitor, \* _idle_monitor: time to the next poll, idle_since and its age
  serving, \* server.should_exit is still false
  busy,    \* a worker opens, analyzes or answers some other request
  req      \* the request for a meta-tool that is followed

vars == <<client, tracker, monitor, serving, busy, req>>

NoRequest ==
  [tool |-> "none", pc |-> "idle", total |-> 0, stop |-> FALSE,
   results |-> << >>, inWorker |-> 0, done |-> {}, withdrawn |-> FALSE,
   cancelled |-> FALSE]

Init ==
  /\ client = [c \in Clients |-> [life |-> "new", connected |-> FALSE,
                                  session |-> FALSE, pinged |-> FALSE, silent |-> 0]]
  /\ tracker = [seen |-> FALSE, age |-> 0]
  /\ monitor = [next |-> PollInterval, idle |-> FALSE, idleFor |-> 0]
  /\ serving = TRUE
  /\ busy = FALSE
  /\ req = NoRequest

Up(c) == client[c].life = "up"

-----------------------------------------------------------------------------
(* Clients *)

\* A client connects, and keeps the stream on which the server sends.  A proxy
\* starts to ping when its streams are open, so its first request may come before
\* its first ping.
Connect(c) ==
  /\ serving
  /\ client[c].life = "new"
  /\ client' = [client EXCEPT ![c].life = "up", ![c].connected = TRUE]
  /\ UNCHANGED <<tracker, monitor, serving, busy, req>>

\* GET /health with the daemon's token.
Ping(c) ==
  /\ serving
  /\ Up(c)
  /\ client' = [client EXCEPT ![c].pinged = TRUE, ![c].silent = 0]
  /\ tracker' = [seen |-> TRUE, age |-> 0]
  /\ UNCHANGED <<monitor, serving, busy, req>>

\* Its first attach registers the session for cleanup on disconnect.
Attach(c) ==
  /\ serving
  /\ Up(c)
  /\ ~client[c].session
  /\ client' = [client EXCEPT ![c].session = TRUE]
  /\ UNCHANGED <<tracker, monitor, serving, busy, req>>

Gone(connected, session) ==
  [life |-> "gone", connected |-> connected, session |-> session,
   pinged |-> FALSE, silent |-> 0]

\* A clean end: the session's disconnect callback discards it.
Leave(c) ==
  /\ Up(c)
  /\ client' = [client EXCEPT ![c] = Gone(FALSE, FALSE)]
  /\ UNCHANGED <<tracker, monitor, serving, busy, req>>

\* An abrupt end: the session stays registered, and the connection may linger.
Die(c) ==
  /\ Up(c)
  /\ \E lingers \in BOOLEAN :
       client' = [client EXCEPT ![c] = Gone(lingers, client[c].session)]
  /\ UNCHANGED <<tracker, monitor, serving, busy, req>>

\* uvicorn finds out that the connection's other end is gone.
ConnectionLost(c) ==
  /\ client[c].life = "gone"
  /\ client[c].connected
  /\ client' = [client EXCEPT ![c].connected = FALSE]
  /\ UNCHANGED <<tracker, monitor, serving, busy, req>>

-----------------------------------------------------------------------------
(* A meta-tool's request.  done are the operations that took effect in a
   worker, inWorker the one that a worker is running (0: none). *)

Failed(r) == \E k \in DOMAIN r.results : r.results[k] = "error"

Request(c, tool, total, stop) ==
  /\ serving
  /\ Up(c)
  /\ req.pc \in {"idle", "answered", "raised"}
  /\ req.inWorker = 0
  /\ req' = [NoRequest EXCEPT !.tool = tool, !.pc = "next", !.total = total,
                              !.stop = stop]
  /\ UNCHANGED <<client, tracker, monitor, serving, busy>>

Batch(c) ==
  \E total \in 1 .. MaxOps, stop \in BOOLEAN : Request(c, "batch", total, stop)

\* Its code makes up to total invokes, one after the other.
Execute(c) == \E total \in 1 .. MaxOps : Request(c, "execute", total, FALSE)

Call(c) == Request(c, "call", 1, FALSE)

\* batch's tail: the BatchResult.
Answered(r) ==
  [r EXCEPT !.pc = "answered",
            !.cancelled = r.withdrawn \/ (r.stop /\ Failed(r))]

\* Mutant of Recorded: the item is lost when it is an error.
RecordedOk(r, result) ==
  LET s == [r EXCEPT !.results = IF result = "ok" THEN Append(@, result) ELSE @,
                     !.inWorker = 0]
  IN  IF s.tool = "batch" /\ Len(s.results) < s.total
      THEN [s EXCEPT !.pc = "progress"] ELSE Answered(s)

\* The loop's body after _safe_call_tool: an item, then the progress report
\* unless it was the last operation, then the test of stop_on_error.  An
\* execute goes on, or not, as its code decides; a call returns or raises.
Recorded(r, result) ==
  LET s == [r EXCEPT !.results = Append(@, result), !.inWorker = 0]
      last == Len(s.results) = s.total
  IN  CASE s.tool = "batch" ->
             IF last THEN Answered(s) ELSE [s EXCEPT !.pc = "progress"]
        [] s.tool = "call" ->
             [s EXCEPT !.pc = IF result = "ok" THEN "answered" ELSE "raised"]
        [] OTHER -> [s EXCEPT !.pc = "next"]

\* _check_blocked or the validation of the arguments refuses the operation.
Refused ==
  /\ req.pc = "next"
  /\ Len(req.results) < req.total
  /\ req' = Recorded(req, "error")
  /\ UNCHANGED <<client, tracker, monitor, serving, busy>>

\* The call is dispatched to the worker of its database.
Dispatched ==
  /\ req.pc = "next"
  /\ Len(req.results) < req.total
  /\ req' = [req EXCEPT !.pc = "calling", !.inWorker = Len(req.results) + 1]
  /\ UNCHANGED <<client, tracker, monitor, serving, busy>>

\* The worker answers; a call that failed may have done something before.
Returns ==
  /\ req.pc = "calling"
  /\ \E result \in {"ok", "error"}, did \in BOOLEAN :
       /\ result = "ok" => did
       /\ req' = Recorded([req EXCEPT !.done = IF did THEN @ \cup {req.inWorker} ELSE @],
                          result)
  /\ UNCHANGED <<client, tracker, monitor, serving, busy>>

\* Mutant of Progressed: the test of stop_on_error looks at the last operation
\* but one.
ProgressedLate ==
  /\ req.pc = "progress"
  /\ req' = IF req.stop /\ \E k \in 1 .. Len(req.results) - 1 : req.results[k] = "error"
            THEN Answered(req) ELSE [req EXCEPT !.pc = "next"]
  /\ UNCHANGED <<client, tracker, monitor, serving, busy>>

\* report_progress returns: stop, or the next operation.
Progressed ==
  /\ req.pc = "progress"
  /\ req' = IF req.stop /\ Failed(req)
            THEN Answered(req) ELSE [req EXCEPT !.pc = "next"]
  /\ UNCHANGED <<client, tracker, monitor, serving, busy>>

\* report_progress raises: nothing of batch catches that.
ProgressFails ==
  /\ req.pc = "progress"
  /\ req' = [req EXCEPT !.pc = "raised"]
  /\ UNCHANGED <<client, tracker, monitor, serving, busy>>

\* execute's code returns or raises, however far it got.
ExecuteEnds ==
  /\ req.tool = "execute"
  /\ req.pc = "next"
  /\ \E pc \in {"answered", "raised"} : req' = [req EXCEPT !.pc = pc]
  /\ UNCHANGED <<client, tracker, monitor, serving, busy>>

\* The client withdraws the request: CancelledError at whatever it awaits.  A
\* batch ends and tells what it has; the task that runs an execute's code is
\* awaited by asyncio.wait, which leaves it running.
Cancel ==
  /\ ~req.withdrawn
  /\ req.pc \in {"calling", "progress"} \/ (req.tool = "execute" /\ req.pc = "next")
  /\ LET r == [req EXCEPT !.withdrawn = TRUE]
     IN  req' = CASE r.tool = "batch" -> Answered(r)
                  [] r.tool = "call" -> [r EXCEPT !.pc = "raised"]
                  [] OTHER -> r
  /\ UNCHANGED <<client, tracker, monitor, serving, busy>>

\* What a cancelled request had in a worker ends there, interrupted or not.
LateEnd ==
  /\ req.inWorker # 0
  /\ req.pc \in {"answered", "raised"}
  /\ \E did \in BOOLEAN :
       req' = [req EXCEPT !.inWorker = 0,
                          !.done = IF did THEN @ \cup {req.inWorker} ELSE @]
  /\ UNCHANGED <<client, tracker, monitor, serving, busy>>

\* Opens, analyses and calls of other requests.
WorkStarts ==
  /\ serving
  /\ ~busy
  /\ \E c \in Clients : Up(c)
  /\ busy' = TRUE
  /\ UNCHANGED <<client, tracker, monitor, serving, req>>

WorkEnds ==
  /\ busy
  /\ busy' = FALSE
  /\ UNCHANGED <<client, tracker, monitor, serving, req>>

-----------------------------------------------------------------------------
(* Time and the idle monitor *)

AgeCap == KeepaliveTimeout + IdleLimit
Older(age, cap) == IF age < cap THEN age + 1 ELSE age

\* What is due happens before time passes: the poll, and a live proxy's ping.
Tick ==
  /\ serving
  /\ monitor.next > 0
  /\ \A c \in Clients : client[c].pinged => client[c].silent < MaxSilence
  /\ client' = [c \in Clients |->
                  IF client[c].pinged
                  THEN [client[c] EXCEPT !.silent = @ + 1] ELSE client[c]]
  /\ tracker' = [tracker EXCEPT !.age = Older(@, AgeCap)]
  /\ monitor' = [monitor EXCEPT !.next = @ - 1, !.idleFor = Older(@, IdleLimit)]
  /\ UNCHANGED <<serving, busy, req>>

HasProxy == tracker.seen /\ tracker.age < KeepaliveTimeout

\* Mutant of Discounted: orphaned sessions count for ever.
DiscountedNever == FALSE

\* A proxy was there and is not any more: its sessions and connections are
\* taken for orphans.
Discounted == tracker.seen /\ ~HasProxy

\* has_active_work: a call the supervisor awaits, an open or an analysis.
ActiveWork == busy \/ req.pc = "calling"

Active ==
  \/ HasProxy
  \/ ActiveWork
  \/ ~Discounted /\ \E c \in Clients : client[c].connected \/ client[c].session

\* Mutant of Poll: an active poll leaves idle_since.
PollKeepsIdle ==
  /\ serving
  /\ monitor.next = 0
  /\ serving' = (Active \/ ~monitor.idle \/ monitor.idleFor < IdleLimit)
  /\ monitor' = CASE Active -> [monitor EXCEPT !.next = PollInterval]
                  [] ~Active /\ ~monitor.idle ->
                       [next |-> PollInterval, idle |-> TRUE, idleFor |-> 0]
                  [] OTHER -> [monitor EXCEPT !.next = PollInterval]
  /\ UNCHANGED <<client, tracker, busy, req>>

Poll ==
  /\ serving
  /\ monitor.next = 0
  /\ serving' = (Active \/ ~monitor.idle \/ monitor.idleFor < IdleLimit)
  /\ monitor' = CASE Active -> [next |-> PollInterval, idle |-> FALSE, idleFor |-> 0]
                  [] ~Active /\ ~monitor.idle ->
                       [next |-> PollInterval, idle |-> TRUE, idleFor |-> 0]
                  [] OTHER -> [monitor EXCEPT !.next = PollInterval]
  /\ UNCHANGED <<client, tracker, busy, req>>

-----------------------------------------------------------------------------
ClientStep ==
  \/ \E c \in Clients : \/ Connect(c) \/ Attach(c) \/ Leave(c) \/ Die(c)
                        \/ ConnectionLost(c)
                        \/ Ping(c) \/ Batch(c) \/ Execute(c) \/ Call(c)
  \/ Cancel

RequestStep ==
  \/ Refused \/ Dispatched \/ Returns \/ Progressed \/ ProgressFails
  \/ ExecuteEnds \/ LateEnd

Next == ClientStep \/ RequestStep \/ WorkStarts \/ WorkEnds \/ Tick \/ Poll

Spec == Init /\ [][Next]_vars

\* Time passes and the monitor polls; the event loop goes on with a request,
\* and a worker ends the calls it has.
FairSpec ==
  Spec /\ WF_vars(Tick) /\ WF_vars(Poll) /\ WF_vars(RequestStep) /\ WF_vars(WorkEnds)

-----------------------------------------------------------------------------
(* Properties *)

TypeOK ==
  /\ client \in [Clients -> [life : {"new", "up", "gone"}, connected : BOOLEAN,
                             session : BOOLEAN, pinged : BOOLEAN,
                             silent : 0 .. MaxSilence]]
  /\ tracker \in [seen : BOOLEAN, age : 0 .. AgeCap]
  /\ monitor \in [next : 0 .. PollInterval, idle : BOOLEAN, idleFor : 0 .. IdleLimit]
  /\ serving \in BOOLEAN
  /\ busy \in BOOLEAN
  /\ req \in [tool : {"none", "batch", "execute", "call"},
              pc : {"idle", "next", "calling", "progress", "answered", "raised"},
              total : 0 .. MaxOps, stop : BOOLEAN, results : Seq({"ok", "error"}),
              inWorker : 0 .. MaxOps, done : SUBSET (1 .. MaxOps),
              withdrawn : BOOLEAN, cancelled : BOOLEAN]

\* A live proxy that pinged was seen, and the latest ping is no older than its own.
PingsSeen ==
  \A c \in Clients : client[c].pinged =>
    /\ tracker.seen
    /\ tracker.age <= client[c].silent
    /\ Up(c)

\* The idle timer runs only behind the keepalive timeout, unless a ping has come
\* since the last poll, which the next poll will see.
TimerBehindPings ==
  monitor.idle /\ tracker.seen =>
    \/ tracker.age >= KeepaliveTimeout + monitor.idleFor
    \/ tracker.age + monitor.next < KeepaliveTimeout

\* The operations begun are those listed and the one in a worker; the ones that
\* took effect are among them, and those listed as done did.
RequestOK ==
  LET n == Len(req.results)
  IN  /\ n <= req.total
      /\ req.inWorker \in {0, n + 1}
      /\ req.inWorker <= req.total
      /\ req.pc = "calling" => req.inWorker # 0
      /\ req.pc \in {"idle", "next", "progress"} => req.inWorker = 0
      /\ req.pc \in {"answered", "raised"} /\ req.inWorker # 0 => req.withdrawn
      /\ req.pc = "progress" => n < req.total /\ req.tool = "batch"
      /\ \A k \in req.done : k <= n \/ (req.withdrawn /\ k = n + 1)
      /\ \A k \in 1 .. n : req.results[k] = "ok" => k \in req.done

\* The inductive invariant of the proofs.
GatewayInv == TypeOK /\ PingsSeen /\ TimerBehindPings /\ RequestOK

\* The idle monitor never ends a daemon that a live proxy keeps: not because
\* its pings are late or lost (up to MaxSilence), because another proxy died,
\* or because nothing else goes on (_idle_monitor).
LiveProxyKeepsDaemon ==
  [][serving /\ ~serving' =>
       \A c \in Clients : Up(c) => ~client[c].pinged]_vars

\* An answered batch tells what became of the database: what took effect is
\* listed, or was cancelled by the client in mid-call; what is listed as done
\* was; nothing ran behind a failure it was to stop at, and a batch that is not
\* marked cancelled ran everything.
BatchTells ==
  req.tool = "batch" /\ req.pc = "answered" =>
    LET n == Len(req.results)
    IN  /\ \A k \in req.done : k <= n \/ (req.withdrawn /\ k = n + 1)
        /\ \A k \in 1 .. n : req.results[k] = "ok" => k \in req.done
        /\ req.stop => \A k \in 1 .. n - 1 : req.results[k] = "ok"
        /\ ~req.cancelled => n = req.total

\* A daemon that served proxies ends when all clients are gone, also when they
\* left sessions and connections behind (the discount in _idle_monitor).
DaemonExits ==
  tracker.seen /\ (\A c \in Clients : client[c].life = "gone") ~> ~serving

\* docs/architecture.md: the monitor exits when there are "no active
\* connections", "no registered MCP sessions", "no worker calls in flight" and no
\* proxy keepalive.  Not kept: once a proxy has died, the connections and the
\* sessions of other clients do not count.
ExitsOnlyIdle ==
  [][serving /\ ~serving' =>
       \A c \in Clients : ~client[c].connected /\ ~client[c].session]_vars

\* BatchResult.cancelled: "Whether batch stopped before completing all
\* operations".  Not kept: it is also set when the last operation fails.
CancelledMeansStopped ==
  req.tool = "batch" /\ req.pc = "answered" /\ req.cancelled =>
    Len(req.results) < req.total

\* docs/tools.md, batch: "the response is always the structured BatchResult".
\* Not kept: a progress report that fails takes the results with it.
BatchAlwaysAnswers == req.tool = "batch" => req.pc # "raised"

\* A withdrawn execute makes no further calls.  Not kept: its task is not
\* cancelled with the request.
CancelledExecuteStops ==
  [][req.withdrawn /\ req.tool = "execute" => req'.pc # "calling" \/ req' = req]_vars
=============================================================================
