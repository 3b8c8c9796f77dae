----------------------------- MODULE Discovery ------------------------------
(***************************************************************************)
(* How proxies find, start and replace the daemon of a backend: proxy.py's *)
(* _ensure_daemon, _spawn_daemon, _stop_daemon and stop, and daemon.py's   *)
(* serve, around two files, the state file and the spawn lock.             *)
(*                                                                         *)
(* Every process is one of its own: reading the state file, probing a pid, *)
(* removing the file and sending a signal are separate steps.  A daemon's  *)
(* number stands for its pid, token and port; pids are not reused.         *)
(* Processes are those of Unix: a child that ended keeps its pid until its *)
(* parent waits for it or ends.                                            *)
(***************************************************************************)
EXTENDS Naturals

CONSTANTS Proxies,      \* runs of "<backend> proxy"
          Stops,        \* runs of "<backend> stop"
          Versions,     \* package versions
          Unknown,      \* the version get_version falls back to
          MaxDaemons,   \* bound: how many daemons a behaviour starts
          Interrupts,   \* may a proxy be killed, or give up, as it waits?
          Manual        \* the daemons users start, with "<backend> serve"

None == 0

Daemons == 1 .. MaxDaemons

ASSUME DiscoveryAssumption ==
  /\ MaxDaemons \in Nat
  /\ Proxies \cap Stops = {}
  /\ None \notin Proxies
  /\ Unknown \in Versions
  /\ Interrupts \in BOOLEAN
  /\ Manual \subseteq Daemons

Procs == Proxies \cup Stops

\* "written" is the time before serve installs its signal handlers, "stopping"
\* the shutdown of the server and its workers, "exiting" all that follows the
\* removal of the state file.
DaemonPCs == {"none", "starting", "written", "serving", "stopping", "exiting",
              "dead"}
ProcPCs == {"new", "check", "wantLock", "locked", "checkLocked", "terminate",
            "waiting", "remove", "spawn", "polling", "returned", "failed",
            "ended"}

VARIABLES file,    \* the daemon the state file names, or None
          lock,    \* the processes that hold daemon.lock
          daemon,  \* the daemons: where they are, their version and parent process
          proc,    \* the proxies and stop commands: pc, version, and the daemon
                   \* they read from the file, then the one they started
          killed   \* the daemons that got SIGKILL as they shut down

vars == <<file, lock, daemon, proc, killed>>

Init ==
  /\ file = None
  /\ lock = {}
  /\ daemon = [d \in Daemons |-> [pc |-> "none", version |-> Unknown, parent |-> None]]
  /\ \E v \in [Procs -> Versions] :
       proc = [p \in Procs |-> [pc |-> "new", version |-> v[p], seen |-> None]]
  /\ killed = {}

-----------------------------------------------------------------------------
Running(d) == daemon[d].pc \notin {"none", "dead"}

\* A daemon that ended is its parent's zombie: the parent starts no other
\* process and waits for none once it has found the state file.
Zombie(d) ==
  /\ daemon[d].pc = "dead"
  /\ daemon[d].parent # None
  /\ proc[daemon[d].parent].pc \notin {"failed", "ended"}

\* daemon_alive of a state that was read: signal 0 reaches a zombie.
Alive(d) == d # None /\ (Running(d) \/ Zombie(d))

\* _version_ok
VersionOk(p) ==
  \/ daemon[proc[p].seen].version = proc[p].version
  \/ Unknown \in {daemon[proc[p].seen].version, proc[p].version}

Goes(p, pc) == proc' = [proc EXCEPT ![p].pc = pc]
Sees(p, pc, d) == proc' = [proc EXCEPT ![p].pc = pc, ![p].seen = d]

\* Mutant of Unlocked: only a success releases the lock.
UnlockedOnSuccess(p, pc) == IF pc = "returned" THEN lock \ {p} ELSE lock

\* Leaving _spawn_lock, however.
Unlocked(p, pc) == lock \ {p}

\* The end of _ensure_daemon, of stop, or of their process.
Ends(p, pc) == Goes(p, pc) /\ lock' = Unlocked(p, pc)

Starts(d, v, parent) ==
  /\ daemon[d].pc = "none"
  /\ daemon' = [daemon EXCEPT ![d] =
                  [pc |-> "starting", version |-> v, parent |-> parent]]

DaemonAt(d, pc) == daemon' = [daemon EXCEPT ![d].pc = pc]

-----------------------------------------------------------------------------
(* The proxy and the stop command *)

Read(p) ==
  /\ proc[p].pc = "new"
  /\ Sees(p, "check", file)
  /\ UNCHANGED <<file, lock, daemon, killed>>

\* _ensure_daemon without the lock: reuse, or go for the lock.
Check(p) ==
  /\ p \in Proxies
  /\ proc[p].pc = "check"
  /\ Goes(p, IF Alive(proc[p].seen) /\ VersionOk(p) THEN "returned"
             ELSE "wantLock")
  /\ UNCHANGED <<file, lock, daemon, killed>>

\* stop takes no lock.
CheckStop(p) ==
  /\ p \in Stops
  /\ proc[p].pc = "check"
  /\ Goes(p, IF Alive(proc[p].seen) THEN "terminate"
             ELSE IF proc[p].seen # None THEN "remove" ELSE "returned")
  /\ UNCHANGED <<file, lock, daemon, killed>>

Lock(p) ==
  /\ p \in Proxies
  /\ proc[p].pc = "wantLock"
  /\ lock = {}
  /\ lock' = {p}
  /\ Goes(p, "locked")
  /\ UNCHANGED <<file, daemon, killed>>

\* Mutant of UnderLock: what was read before the lock is trusted.
UnderLockStale(p) == proc[p].seen

\* The state is read again under the lock.
UnderLock(p) == file

ReadLocked(p) ==
  /\ proc[p].pc = "locked"
  /\ Sees(p, "checkLocked", UnderLock(p))
  /\ UNCHANGED <<file, lock, daemon, killed>>

CheckLocked(p) ==
  LET d == proc[p].seen
  IN  /\ proc[p].pc = "checkLocked"
      /\ \/ /\ Alive(d) /\ VersionOk(p)
            /\ Ends(p, "returned")
         \/ /\ Alive(d) /\ ~VersionOk(p)
            /\ Goes(p, "terminate")
            /\ UNCHANGED lock
         \/ /\ ~Alive(d)
            /\ Goes(p, IF d = None THEN "spawn" ELSE "remove")
            /\ UNCHANGED lock
      /\ UNCHANGED <<file, daemon, killed>>

\* _stop_daemon's SIGTERM.  Until serve has installed its handlers it kills;
\* later it makes a serving daemon shut down and changes nothing else.
Terminate(p) ==
  LET d == proc[p].seen
  IN  /\ proc[p].pc = "terminate"
      /\ Goes(p, IF Alive(d) THEN "waiting" ELSE "remove")
      /\ daemon' = [daemon EXCEPT ![d].pc =
                      CASE @ \in {"starting", "written"} -> "dead"
                        [] @ = "serving" -> "stopping"
                        [] OTHER -> @]
      /\ UNCHANGED <<file, lock, killed>>

\* Mutant of Exited: the exit is not waited for.
ExitedOrNot(d) == TRUE

Exited(d) == ~Alive(d)

ExitSeen(p) ==
  /\ proc[p].pc = "waiting"
  /\ Exited(proc[p].seen)
  /\ Goes(p, "remove")
  /\ UNCHANGED <<file, lock, daemon, killed>>

\* After five seconds: SIGKILL, after which the process is gone.
Kill(p) ==
  LET d == proc[p].seen
  IN  /\ proc[p].pc = "waiting"
      /\ Alive(d)
      /\ DaemonAt(d, "dead")
      /\ killed' = IF daemon[d].pc = "stopping" THEN killed \cup {d} ELSE killed
      /\ Goes(p, "remove")
      /\ UNCHANGED <<file, lock>>

\* remove_state: whatever the file says by now.
RemoveState(p) ==
  /\ proc[p].pc = "remove"
  /\ file' = None
  /\ Goes(p, IF p \in Stops THEN "returned" ELSE "spawn")
  /\ UNCHANGED <<lock, daemon, killed>>

\* _spawn_daemon: the daemon runs the proxy's own version.
Spawn(p) ==
  /\ p \in Proxies
  /\ proc[p].pc = "spawn"
  /\ \E d \in Daemons : Starts(d, proc[p].version, p) /\ Sees(p, "polling", d)
  /\ UNCHANGED <<file, lock, killed>>

\* Polling: any state of a live daemon will do; else poll() of a child that is
\* gone fails.
PollFinds(p) ==
  /\ proc[p].pc = "polling"
  /\ Alive(file)
  /\ Ends(p, "returned")
  /\ UNCHANGED <<file, daemon, killed>>

PollFails(p) ==
  /\ proc[p].pc = "polling"
  /\ ~Alive(file)
  /\ ~Running(proc[p].seen)
  /\ Ends(p, "failed")
  /\ UNCHANGED <<file, daemon, killed>>

\* The 15 second deadline; the daemon is left to itself.
PollDeadline(p) ==
  /\ Interrupts
  /\ proc[p].pc = "polling"
  /\ Ends(p, "failed")
  /\ UNCHANGED <<file, daemon, killed>>

\* The client ends the proxy's process, which gives back the lock.
ProxyDies(p) ==
  /\ Interrupts
  /\ p \in Proxies
  /\ proc[p].pc \notin {"new", "returned", "failed", "ended"}
  /\ Goes(p, "failed")
  /\ lock' = lock \ {p}
  /\ UNCHANGED <<file, daemon, killed>>

\* The bridge of a proxy that found its daemon ends.
ProxyLeaves(p) ==
  /\ p \in Proxies
  /\ proc[p].pc = "returned"
  /\ Goes(p, "ended")
  /\ UNCHANGED <<file, lock, daemon, killed>>

-----------------------------------------------------------------------------
(* The daemon *)

\* A user starts a daemon.
Serve ==
  /\ \E d \in Manual, v \in Versions : Starts(d, v, None)
  /\ UNCHANGED <<file, lock, proc, killed>>

WriteState(d) ==
  /\ daemon[d].pc = "starting"
  /\ file' = d
  /\ DaemonAt(d, "written")
  /\ UNCHANGED <<lock, proc, killed>>

Serving(d) ==
  /\ daemon[d].pc = "written"
  /\ DaemonAt(d, "serving")
  /\ UNCHANGED <<file, lock, proc, killed>>

\* The idle monitor, or a signal from elsewhere.
Stopping(d) ==
  /\ daemon[d].pc = "serving"
  /\ DaemonAt(d, "stopping")
  /\ UNCHANGED <<file, lock, proc, killed>>

\* serve's finally.
RemoveOwnState(d) ==
  /\ daemon[d].pc = "stopping"
  /\ file' = None
  /\ DaemonAt(d, "exiting")
  /\ UNCHANGED <<lock, proc, killed>>

\* The process ends, or crashes.
Dies(d) ==
  /\ Running(d)
  /\ DaemonAt(d, "dead")
  /\ UNCHANGED <<file, lock, proc, killed>>

-----------------------------------------------------------------------------
ProcStep(p) ==
  \/ Read(p)
  \/ Check(p)
  \/ CheckStop(p)
  \/ Lock(p)
  \/ ReadLocked(p)
  \/ CheckLocked(p)
  \/ Terminate(p)
  \/ ExitSeen(p)
  \/ Kill(p)
  \/ RemoveState(p)
  \/ Spawn(p)
  \/ PollFinds(p)
  \/ PollFails(p)
  \/ PollDeadline(p)

DaemonStep(d) ==
  \/ WriteState(d)
  \/ Serving(d)
  \/ Stopping(d)
  \/ RemoveOwnState(d)
  \/ Dies(d)

Next ==
  \/ \E p \in Procs : ProcStep(p) \/ ProxyDies(p) \/ ProxyLeaves(p)
  \/ \E d \in Daemons : DaemonStep(d)
  \/ Serve

Spec == Init /\ [][Next]_vars

\* Proxies and stop commands run, and their deadlines pass.  Nothing is assumed
\* of the daemons.
FairSpec == Spec /\ \A p \in Procs : WF_vars(ProcStep(p))

-----------------------------------------------------------------------------
(* Properties *)

\* Every variable keeps its type.
TypeOK ==
  /\ file \in Daemons \cup {None}
  /\ lock \in SUBSET Proxies
  /\ daemon \in [Daemons -> [pc : DaemonPCs, version : Versions,
                            parent : Proxies \cup {None}]]
  /\ proc \in [Procs -> [pc : ProcPCs, version : Versions,
                         seen : Daemons \cup {None}]]
  /\ killed \in SUBSET Daemons

\* Nobody stops a daemon from outside, starts one by hand, or is interrupted.
Calm == Stops = {} /\ ~Interrupts /\ Manual = {}

Critical == {"locked", "checkLocked", "terminate", "waiting", "remove", "spawn",
             "polling"}

\* A daemon that has been started and has not taken itself off the file.
Up(d) == daemon[d].pc \in {"starting", "written", "serving", "stopping"}

\* One proxy at a time is between _spawn_lock's enter and exit.
LockHeld ==
  /\ \A p \in Proxies : p \in lock <=> proc[p].pc \in Critical
  /\ \A p, q \in lock : p = q

\* The file names the daemon that wrote it until that daemon leaves it.
FileMatches ==
  /\ \A d \in Daemons : Up(d) /\ daemon[d].pc # "starting" => file = d
  /\ file # None => daemon[file].pc \notin {"none", "starting"}

\* What the proxy in the critical section may rely on: no daemon is up but the
\* one it read or started, and the file names no other.
Knows(p) ==
  /\ proc[p].pc \in Critical \ {"locked"} =>
       \A d \in Daemons : Up(d) => /\ proc[p].seen = d
                                 /\ proc[p].pc \notin {"remove", "spawn"}
  /\ proc[p].pc = "checkLocked" /\ proc[p].seen = None => file = None
  /\ proc[p].pc = "spawn" => file = None
  /\ proc[p].pc = "polling" =>
       proc[p].seen # None /\ file \in {None, proc[p].seen}

HolderKnows ==
  /\ \A d \in Daemons : daemon[d].pc = "starting" =>
       \E p \in Proxies : proc[p].pc = "polling" /\ proc[p].seen = d
  /\ \A p \in Proxies : Knows(p)

\* The invariant of the proofs.
DiscoveryInv == TypeOK /\ LockHeld /\ (Calm => FileMatches /\ HolderKnows)

\* "spawns one if needed (with a file lock to prevent races between concurrent
\* clients)" (docs/architecture.md:65): a second daemon is not started while one
\* is up.
OneDaemonUp == \A d, e \in Daemons : Up(d) /\ Up(e) => d = e

\* The state file names the daemon that serves, so that proxies and stop find
\* it: no removal by another process, late or not, hits it (README.md:252,
\* "the connection details (host, port, bearer token) are in the state file").
Discoverable == \A d \in Daemons : daemon[d].pc = "serving" => file = d

\* stop and a version change "gracefully shut down" the daemon
\* (README.md:127): it is not killed as it still shuts its workers down.
Graceful == killed = {}

\* "Check whether the daemon process recorded in *state* is still alive"
\* (daemon_alive, daemon.py:126): no proxy settles on a daemon that has ended.
ReusesRunningDaemon ==
  [][\A p \in Proxies :
       proc[p].pc \in {"check", "checkLocked"} /\ proc'[p].pc = "returned" =>
         Running(proc[p].seen)]_vars

\* Every proxy and every stop command comes to an end: the lock is given back by
\* every way out, and no wait is without a deadline.
ProcsEnd ==
  \A p \in Procs :
    proc[p].pc # "new" ~> proc[p].pc \in {"returned", "failed", "ended"}
=============================================================================
