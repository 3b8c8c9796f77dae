-------------------------- MODULE DiscoveryProofs ---------------------------
(* Theorems about Discovery, for every value of its constants. *)
EXTENDS Discovery, TLAPS

LEMMA InitSafe == Init => DiscoveryInv
<1> SUFFICES ASSUME Init PROVE DiscoveryInv
  OBVIOUS
<1>1. TypeOK
  BY DiscoveryAssumption DEF Init, TypeOK, DaemonPCs, ProcPCs
<1>2. \A p \in Proxies : proc[p].pc = "new"
  BY DEF Init, Procs
<1>3. \A d \in Daemons : daemon[d].pc = "none"
  BY DEF Init
<1>4. LockHeld
  BY <1>2 DEF Init, LockHeld, Critical
<1>5. FileMatches
  BY <1>3 DEF Init, FileMatches, Up
<1>6. HolderKnows
  BY <1>2, <1>3 DEF HolderKnows, Knows, Critical, Up
<1> QED BY <1>1, <1>4, <1>5, <1>6 DEF DiscoveryInv

-----------------------------------------------------------------------------
(* Types *)

DaemonTypes ==
  [Daemons -> [pc : DaemonPCs, version : Versions, parent : Proxies \cup {None}]]

LEMMA NoneOut == None \notin Daemons
BY DiscoveryAssumption DEF None, Daemons

LEMMA GoesType ==
  ASSUME TypeOK, NEW p \in Procs, NEW pc \in ProcPCs, Goes(p, pc)
  PROVE  /\ proc' \in [Procs -> [pc : ProcPCs, version : Versions,
                                 seen : Daemons \cup {None}]]
         /\ proc'[p].pc = pc /\ proc'[p].seen = proc[p].seen
         /\ \A q \in Procs : q # p => proc'[q] = proc[q]
BY DEF TypeOK, Goes

LEMMA SeesType ==
  ASSUME TypeOK, NEW p \in Procs, NEW pc \in ProcPCs,
         NEW d \in Daemons \cup {None}, Sees(p, pc, d)
  PROVE  /\ proc' \in [Procs -> [pc : ProcPCs, version : Versions,
                                 seen : Daemons \cup {None}]]
         /\ proc'[p].pc = pc /\ proc'[p].seen = d
         /\ \A q \in Procs : q # p => proc'[q] = proc[q]
BY DEF TypeOK, Sees

LEMMA DaemonAtType ==
  ASSUME TypeOK, NEW d \in Daemons, NEW pc \in DaemonPCs, DaemonAt(d, pc)
  PROVE  /\ daemon' \in DaemonTypes
         /\ daemon'[d].pc = pc
         /\ \A e \in Daemons : e # d => daemon'[e] = daemon[e]
BY DEF TypeOK, DaemonAt, DaemonTypes

LEMMA StartsType ==
  ASSUME TypeOK, NEW d \in Daemons, NEW v \in Versions,
         NEW parent \in Proxies \cup {None}, Starts(d, v, parent)
  PROVE  /\ daemon' \in DaemonTypes
         /\ daemon[d].pc = "none" /\ daemon'[d].pc = "starting"
         /\ \A e \in Daemons : e # d => daemon'[e] = daemon[e]
BY DEF TypeOK, Starts, DaemonPCs, DaemonTypes

-----------------------------------------------------------------------------
(* A proxy or stop command changes only its own pc, and the lock as its pc    *)
(* says.                                                                     *)

LEMMA LockKept ==
  ASSUME TypeOK, LockHeld, NEW p \in Procs,
         \A q \in Procs : q # p => proc'[q] = proc[q],
         \/ /\ lock' = lock
            /\ p \in Proxies => (proc'[p].pc \in Critical <=> proc[p].pc \in Critical)
         \/ /\ lock' = lock \ {p}
            /\ proc'[p].pc \notin Critical
         \/ /\ lock = {} /\ lock' = {p} /\ p \in Proxies
            /\ proc'[p].pc \in Critical
  PROVE  LockHeld' /\ lock' \in SUBSET Proxies
<1>1. \A q \in Proxies : q \in Procs
  BY DEF Procs
<1>2. \A q \in Proxies : q \in lock' <=> proc'[q].pc \in Critical
  BY <1>1 DEF LockHeld
<1>3. \A q, r \in lock' : q = r
  BY DEF LockHeld
<1>4. lock' \in SUBSET Proxies
  BY DEF TypeOK
<1> QED BY <1>2, <1>3, <1>4 DEF LockHeld

\* Where nobody uses stop, every process is a proxy; and those in the critical
\* section are one.
LEMMA OneHolder ==
  ASSUME TypeOK, LockHeld, NEW p \in Proxies, NEW q \in Proxies,
         proc[p].pc \in Critical, proc[q].pc \in Critical
  PROVE  p = q
BY DEF LockHeld

LEMMA CalmProcs == Calm => Procs = Proxies
BY DEF Calm, Procs

-----------------------------------------------------------------------------
(* Types and the lock, for every step of a process *)

Base == TypeOK /\ LockHeld

LEMMA BaseGoes ==
  ASSUME Base, NEW p \in Procs, NEW pc \in ProcPCs, Goes(p, pc),
         UNCHANGED <<file, lock>>,
         daemon' \in DaemonTypes,
         killed' \in SUBSET Daemons,
         p \in Proxies => (pc \in Critical <=> proc[p].pc \in Critical)
  PROVE  Base'
<1>1. proc' \in [Procs -> [pc : ProcPCs, version : Versions,
                          seen : Daemons \cup {None}]]
      /\ proc'[p].pc = pc
      /\ \A q \in Procs : q # p => proc'[q] = proc[q]
  BY GoesType DEF Base
<1>2. LockHeld'
  BY <1>1, LockKept DEF Base
<1> QED BY <1>1, <1>2 DEF Base, TypeOK, DaemonTypes

LEMMA BaseSees ==
  ASSUME Base, NEW p \in Procs, NEW pc \in ProcPCs, NEW d \in Daemons \cup {None},
         Sees(p, pc, d), UNCHANGED <<file, lock, killed>>,
         daemon' \in DaemonTypes,
         p \in Proxies => (pc \in Critical <=> proc[p].pc \in Critical)
  PROVE  Base'
<1>1. proc' \in [Procs -> [pc : ProcPCs, version : Versions,
                          seen : Daemons \cup {None}]]
      /\ proc'[p].pc = pc
      /\ \A q \in Procs : q # p => proc'[q] = proc[q]
  BY SeesType DEF Base
<1>2. LockHeld'
  BY <1>1, LockKept DEF Base
<1> QED BY <1>1, <1>2 DEF Base, TypeOK, DaemonTypes

LEMMA BaseEnds ==
  ASSUME Base, NEW p \in Procs, NEW pc \in {"returned", "failed"},
         Goes(p, pc), lock' = lock \ {p}, UNCHANGED <<file, daemon, killed>>
  PROVE  Base'
<1>0. pc \in ProcPCs /\ pc \notin Critical
  BY DEF ProcPCs, Critical
<1>1. proc' \in [Procs -> [pc : ProcPCs, version : Versions,
                          seen : Daemons \cup {None}]]
      /\ proc'[p].pc = pc
      /\ \A q \in Procs : q # p => proc'[q] = proc[q]
  BY <1>0, GoesType DEF Base
<1>2. LockHeld' /\ lock' \in SUBSET Proxies
  BY <1>0, <1>1, LockKept DEF Base
<1> QED BY <1>1, <1>2 DEF Base, TypeOK, DaemonTypes

LEMMA ProcBase ==
  ASSUME Base, NEW p \in Procs, ProcStep(p) \/ ProxyDies(p) \/ ProxyLeaves(p)
  PROVE  Base'
<1> USE DEF Critical, ProcPCs, DaemonTypes
<1>0. /\ daemon \in DaemonTypes
      /\ killed \in SUBSET Daemons
      /\ file \in Daemons \cup {None}
      /\ proc[p].seen \in Daemons \cup {None}
      /\ p \in Proxies \/ p \in Stops
      /\ Proxies \cap Stops = {}
  BY DiscoveryAssumption DEF Base, TypeOK, Procs
<1>1. CASE Read(p)
  BY <1>0, <1>1, BaseSees DEF Read
<1>2. CASE Check(p)
  BY <1>0, <1>2, BaseGoes DEF Check
<1>3. CASE CheckStop(p)
  BY <1>0, <1>3, BaseGoes DEF CheckStop
<1>4. CASE Lock(p)
  <2>2. proc' \in [Procs -> [pc : ProcPCs, version : Versions,
                            seen : Daemons \cup {None}]]
        /\ proc'[p].pc = "locked"
        /\ \A q \in Procs : q # p => proc'[q] = proc[q]
    BY <1>4, GoesType DEF Base, Lock
  <2>3. LockHeld' /\ lock' \in SUBSET Proxies
    BY <1>4, <2>2, LockKept DEF Base, Lock
  <2> QED BY <1>4, <2>2, <2>3 DEF Base, TypeOK, Lock
<1>5. CASE ReadLocked(p)
  BY <1>0, <1>5, BaseSees DEF ReadLocked, UnderLock
<1>6. CASE CheckLocked(p)
  BY <1>0, <1>6, BaseGoes, BaseEnds DEF CheckLocked, Ends, Unlocked
<1>7. CASE Terminate(p)
  <2> DEFINE d == proc[p].seen
             pc == CASE daemon[d].pc \in {"starting", "written"} -> "dead"
                     [] daemon[d].pc = "serving" -> "stopping"
                     [] OTHER -> daemon[d].pc
  <2>0. daemon' = [daemon EXCEPT ![d].pc = pc]
    BY <1>7 DEF Terminate
  <2>1. daemon' \in DaemonTypes
    <3>1. CASE d = None
      <4>1. None \notin Daemons
        BY DiscoveryAssumption DEF Daemons, None
      <4>2. daemon' = daemon
        <5> HIDE DEF pc
        <5> QED BY <1>0, <2>0, <3>1, <4>1
      <4> QED BY <1>0, <4>2
    <3>2. CASE d \in Daemons
      <4>1. pc \in DaemonPCs
        BY <1>0, <3>2 DEF DaemonPCs
      <4> HIDE DEF pc
      <4> QED BY <1>0, <2>0, <3>2, <4>1
    <3> QED BY <1>0, <3>1, <3>2
  <2> QED BY <1>0, <1>7, <2>1, BaseGoes DEF Terminate
<1>8. CASE ExitSeen(p)
  BY <1>0, <1>8, BaseGoes DEF ExitSeen
<1>9. CASE Kill(p)
  <2>1. daemon' \in DaemonTypes
    BY <1>0, <1>9 DEF Kill, DaemonAt, DaemonPCs
  <2>2. killed' \in SUBSET Daemons
    BY <1>0, <1>9 DEF Kill, Alive, Running
  <2> QED BY <1>0, <1>9, <2>1, <2>2, BaseGoes DEF Kill
<1>10. CASE RemoveState(p)
  <2> DEFINE pc == IF p \in Stops THEN "returned" ELSE "spawn"
  <2>0. pc \in ProcPCs /\ Goes(p, pc)
    BY <1>10 DEF RemoveState
  <2> HIDE DEF pc
  <2>1. proc' \in [Procs -> [pc : ProcPCs, version : Versions,
                            seen : Daemons \cup {None}]]
        /\ proc'[p].pc = pc
        /\ \A q \in Procs : q # p => proc'[q] = proc[q]
    BY <2>0, GoesType DEF Base
  <2>2. p \in Proxies => (pc \in Critical <=> proc[p].pc \in Critical)
    BY <1>0, <1>10 DEF RemoveState, pc
  <2>3. LockHeld'
    BY <1>10, <2>1, <2>2, LockKept DEF Base, RemoveState
  <2> QED BY <1>10, <2>1, <2>3 DEF Base, TypeOK, RemoveState
<1>11. CASE Spawn(p)
  <2>1. PICK d \in Daemons : Starts(d, proc[p].version, p) /\ Sees(p, "polling", d)
    BY <1>11 DEF Spawn
  <2>2. proc[p].version \in Versions /\ p \in Proxies
    BY <1>11 DEF Base, TypeOK, Spawn
  <2>3. daemon' \in DaemonTypes
    BY <2>1, <2>2, StartsType DEF Base
  <2> QED BY <1>11, <2>1, <2>3, BaseSees DEF Spawn
<1>12. CASE PollFinds(p)
  BY <1>12, BaseEnds DEF PollFinds, Ends, Unlocked
<1>13. CASE PollFails(p)
  BY <1>13, BaseEnds DEF PollFails, Ends, Unlocked
<1>14. CASE PollDeadline(p)
  BY <1>14, BaseEnds DEF PollDeadline, Ends, Unlocked
<1>15. CASE ProxyDies(p)
  BY <1>15, BaseEnds DEF ProxyDies
<1>16. CASE ProxyLeaves(p)
  BY <1>0, <1>16, BaseGoes DEF ProxyLeaves
<1> QED BY <1>1, <1>2, <1>3, <1>4, <1>5, <1>6, <1>7, <1>8, <1>9, <1>10, <1>11,
           <1>12, <1>13, <1>14, <1>15, <1>16 DEF ProcStep

LEMMA DaemonBase ==
  ASSUME Base, (\E d \in Daemons : DaemonStep(d)) \/ Serve
  PROVE  Base'
<1> USE DEF DaemonPCs, DaemonTypes
<1>0. Alive(None) = FALSE
  BY DEF Alive, Running
<1>1. CASE \E d \in Daemons : DaemonStep(d)
  <2>1. PICK d \in Daemons : DaemonStep(d)
    BY <1>1
  <2>2. /\ daemon' \in DaemonTypes
        /\ file' \in {file, d, None}
        /\ UNCHANGED <<lock, proc, killed>>
    BY <2>1, DaemonAtType
    DEF Base, DaemonStep, WriteState, Serving, Stopping, RemoveOwnState, Dies
  <2> QED BY <2>2 DEF Base, TypeOK, LockHeld
<1>2. CASE Serve
  <2>1. daemon' \in DaemonTypes
    BY <1>2, StartsType, DiscoveryAssumption DEF Base, Serve
  <2> QED BY <1>2, <2>1 DEF Base, TypeOK, LockHeld, Serve
<1> QED BY <1>1, <1>2

-----------------------------------------------------------------------------
(* Where nobody interferes: what the holder of the lock knows stays true *)

CalmInv == FileMatches /\ HolderKnows

\* Steps that leave the file alone and start no daemon: those of S change, and
\* what they then know is to be shown.
\* A daemon that only goes on, and does not write its file.
Fades(e) ==
  /\ Up(e)' => Up(e)
  /\ daemon'[e].pc = "starting" => daemon[e].pc = "starting"
  /\ daemon[e].pc \notin {"none", "starting"} =>
       daemon'[e].pc \notin {"none", "starting"}
  /\ daemon[e].pc = "starting" => daemon'[e].pc # "none"
  /\ Up(e)' /\ daemon[e].pc = "starting" => daemon'[e].pc = "starting"

LEMMA Quiet ==
  ASSUME TypeOK, CalmInv, file' = file, NEW S,
         \A e \in Daemons : Fades(e),
         \A q \in Proxies \ S : proc'[q] = proc[q],
         \A q \in Proxies \cap S :
           /\ Knows(q)'
           /\ proc[q].pc = "polling" /\ proc[q].seen \in Daemons =>
                daemon'[proc[q].seen].pc # "starting"
  PROVE  CalmInv'
<1>1. FileMatches'
  BY DEF CalmInv, FileMatches, TypeOK, Up, Fades
<1>2. ASSUME NEW d \in Daemons, daemon'[d].pc = "starting"
      PROVE  \E p \in Proxies : proc'[p].pc = "polling" /\ proc'[p].seen = d
  <2>1. PICK p \in Proxies : proc[p].pc = "polling" /\ proc[p].seen = d
    BY <1>2 DEF CalmInv, HolderKnows, Fades
  <2>2. p \notin S
    BY <1>2, <2>1
  <2> QED BY <2>1, <2>2
<1>3. ASSUME NEW q \in Proxies, q \notin S
      PROVE  Knows(q)'
  <2>1. Knows(q)
    BY DEF CalmInv, HolderKnows
  <2> QED BY <1>3, <2>1 DEF Knows, Fades
<1> QED BY <1>1, <1>2, <1>3 DEF CalmInv, HolderKnows

LEMMA QuietProxy ==
  ASSUME TypeOK, CalmInv, NEW p \in Proxies, file' = file,
         \A e \in Daemons : Fades(e),
         \A q \in Procs : q # p => proc'[q] = proc[q],
         Knows(p)',
         proc[p].pc = "polling" /\ proc[p].seen \in Daemons =>
           daemon'[proc[p].seen].pc # "starting"
  PROVE  CalmInv'
<1> DEFINE S == {p}
<1>1. \A q \in Proxies \ S : proc'[q] = proc[q]
  BY DEF Procs
<1>2. \A q \in Proxies \cap S : q = p
  OBVIOUS
<1>3. \A q \in Proxies \cap S :
        /\ Knows(q)'
        /\ proc[q].pc = "polling" /\ proc[q].seen \in Daemons =>
             daemon'[proc[q].seen].pc # "starting"
  BY <1>2
<1> HIDE DEF S
<1> QED BY <1>1, <1>3, Quiet

LEMMA QuietDaemon ==
  ASSUME TypeOK, CalmInv, UNCHANGED <<file, proc>>,
         \A e \in Daemons : Fades(e)
  PROVE  CalmInv'
<1> DEFINE S == {}
<1>1. \A q \in Proxies \ S : proc'[q] = proc[q]
  OBVIOUS
<1>2. Proxies \cap S = {}
  OBVIOUS
<1> HIDE DEF S
<1> QED BY <1>1, <1>2, Quiet

LEMMA ProcCalm ==
  ASSUME Base, Calm, CalmInv, NEW p \in Procs, ProcStep(p) \/ ProxyDies(p) \/ ProxyLeaves(p)
  PROVE  CalmInv'
<1> USE DEF Critical
<1>0. p \in Proxies /\ p \notin Stops /\ ~Interrupts /\ Knows(p) /\ Procs = Proxies
  BY CalmProcs DEF Calm, CalmInv, HolderKnows
<1>a. /\ TypeOK /\ proc[p].seen \in Daemons \cup {None}
      /\ file \in Daemons \cup {None}
  BY DEF Base, TypeOK
<1>b. ASSUME UNCHANGED <<file, daemon>>, Knows(p)',
             \A q \in Procs : q # p => proc'[q] = proc[q],
             proc[p].pc = "polling" /\ proc[p].seen \in Daemons =>
               daemon[proc[p].seen].pc # "starting"
      PROVE  CalmInv'
  <2>1. \A e \in Daemons : Fades(e)
    BY <1>b DEF Fades, Up
  <2> QED BY <1>0, <1>a, <1>b, <2>1, QuietProxy
<1>c. \A q \in Proxies : proc[q].pc \in Critical /\ proc[p].pc \in Critical => q = p
  BY <1>0, OneHolder DEF Base
<1>1. CASE Read(p)
  <2>1. proc'[p].pc = "check" /\ \A q \in Procs : q # p => proc'[q] = proc[q]
    BY <1>1, <1>a, SeesType DEF Read, ProcPCs
  <2>2. Knows(p)'
    BY <2>1 DEF Knows
  <2> QED BY <1>1, <1>b, <2>1, <2>2 DEF Read
<1>2. CASE Check(p)
  <2>1. /\ proc'[p].pc \in {"returned", "wantLock"}
        /\ \A q \in Procs : q # p => proc'[q] = proc[q]
    BY <1>2, <1>a, GoesType DEF Check, ProcPCs
  <2>2. Knows(p)'
    BY <2>1 DEF Knows
  <2> QED BY <1>2, <1>b, <2>1, <2>2 DEF Check
<1>3. CASE CheckStop(p)
  BY <1>0, <1>3 DEF CheckStop
<1>4. CASE Lock(p)
  <2>1. proc'[p].pc = "locked" /\ \A q \in Procs : q # p => proc'[q] = proc[q]
    BY <1>4, <1>a, GoesType DEF Lock, ProcPCs
  <2>2. Knows(p)'
    BY <2>1 DEF Knows
  <2> QED BY <1>4, <1>b, <2>1, <2>2 DEF Lock
<1>5. CASE ReadLocked(p)
  <2>1. /\ proc'[p].pc = "checkLocked" /\ proc'[p].seen = file
        /\ \A q \in Procs : q # p => proc'[q] = proc[q]
    BY <1>5, <1>a, SeesType DEF ReadLocked, UnderLock, ProcPCs
  <2>2. \A d \in Daemons : Up(d) => d = file
    <3> SUFFICES ASSUME NEW d \in Daemons, Up(d) PROVE d = file
      OBVIOUS
    <3>1. daemon[d].pc # "starting"
      BY <1>5, <1>c DEF ReadLocked, CalmInv, HolderKnows
    <3> QED BY <3>1 DEF CalmInv, FileMatches
  <2>3. Knows(p)'
    BY <1>5, <2>1, <2>2 DEF Knows, ReadLocked, Up
  <2> QED BY <1>5, <1>b, <2>1, <2>3 DEF ReadLocked
<1>6. CASE CheckLocked(p)
  <2>1. PICK pc \in {"returned", "terminate", "spawn", "remove"} : Goes(p, pc)
    BY <1>6 DEF CheckLocked, Ends
  <2>2. /\ proc'[p].pc = pc /\ proc'[p].seen = proc[p].seen
        /\ \A q \in Procs : q # p => proc'[q] = proc[q]
    BY <2>1, <1>a, GoesType DEF ProcPCs
  <2>3. /\ pc \in {"spawn", "remove"} => ~Alive(proc[p].seen)
        /\ pc = "spawn" => proc[p].seen = None
    BY <1>6, <2>2, <1>0, <1>a DEF CheckLocked, Ends, Goes, TypeOK
  <2>4. \A d \in Daemons : Up(d) => proc[p].seen = d /\ Alive(d)
    BY <1>6, <1>0, NoneOut DEF CheckLocked, Knows, Up, Alive, Running
  <2>5. Knows(p)'
    BY <1>6, <1>0, <2>2, <2>3, <2>4 DEF Knows, CheckLocked, Up
  <2> QED BY <1>6, <1>b, <2>2, <2>5 DEF CheckLocked
<1>7. CASE Terminate(p)
  <2>1. PICK pc \in {"waiting", "remove"} :
          Goes(p, pc) /\ (pc = "remove" => ~Alive(proc[p].seen))
    BY <1>7 DEF Terminate
  <2>2. /\ proc'[p].pc = pc /\ proc'[p].seen = proc[p].seen
        /\ \A q \in Procs : q # p => proc'[q] = proc[q]
    BY <2>1, <1>a, GoesType DEF ProcPCs
  <2>3. \A d \in Daemons : Up(d) => proc[p].seen = d /\ Alive(d)
    BY <1>7, <1>0, NoneOut DEF Terminate, Knows, Up, Alive, Running
  <2>4. \A e \in Daemons : Fades(e)
    BY <1>7, <1>a DEF Terminate, Up, TypeOK, Fades
  <2>5. Knows(p)'
    BY <2>1, <2>2, <2>3, <2>4 DEF Knows, Fades
  <2>6. proc[p].pc # "polling" /\ file' = file
    BY <1>7 DEF Terminate
  <2> QED BY <1>0, <1>a, <2>2, <2>4, <2>5, <2>6, QuietProxy
<1>8. CASE ExitSeen(p)
  <2>1. /\ proc'[p].pc = "remove" /\ proc'[p].seen = proc[p].seen
        /\ \A q \in Procs : q # p => proc'[q] = proc[q]
    BY <1>8, <1>a, GoesType DEF ExitSeen, ProcPCs
  <2>2. \A d \in Daemons : ~Up(d)
    BY <1>8, <1>0, NoneOut DEF ExitSeen, Exited, Knows, Up, Alive, Running
  <2>3. Knows(p)'
    BY <1>8, <2>1, <2>2 DEF Knows, ExitSeen, Up
  <2> QED BY <1>8, <1>b, <2>1, <2>3 DEF ExitSeen
<1>9. CASE Kill(p)
  <2> DEFINE d == proc[p].seen
  <2>1. /\ proc'[p].pc = "remove" /\ proc'[p].seen = proc[p].seen
        /\ \A q \in Procs : q # p => proc'[q] = proc[q]
    BY <1>9, <1>a, GoesType DEF Kill, ProcPCs
  <2>2. /\ d \in Daemons /\ daemon'[d].pc = "dead" /\ daemon[d].pc # "none"
        /\ \A e \in Daemons : e # d => daemon'[e] = daemon[e]
    BY <1>9, <1>a, DaemonAtType DEF Kill, Alive, Running, Zombie, DaemonPCs
  <2>3. \A e \in Daemons : Up(e) => e = d
    BY <1>9, <1>0 DEF Kill, Knows
  <2>4. \A e \in Daemons : ~Up(e)'
    BY <2>2, <2>3 DEF Up
  <2>5. Knows(p)'
    BY <2>1, <2>4 DEF Knows
  <2>6. proc[p].pc # "polling" /\ file' = file
    BY <1>9 DEF Kill
  <2>7. \A e \in Daemons : Fades(e)
    BY <2>2 DEF Up, Fades
  <2> QED BY <1>0, <1>a, <2>1, <2>7, <2>5, <2>6, QuietProxy
<1>10. CASE RemoveState(p)
  <2>1. /\ proc'[p].pc = "spawn" /\ file' = None
        /\ \A q \in Procs : q # p => proc'[q] = proc[q]
    BY <1>10, <1>0, <1>a, GoesType DEF RemoveState, ProcPCs
  <2>2. \A d \in Daemons : ~Up(d) /\ ~Up(d)'
    BY <1>10, <1>0 DEF RemoveState, Knows, Up
  <2>3. \A q \in Proxies : Knows(q)'
    BY <1>10, <1>0, <1>c, <2>1, <2>2 DEF RemoveState, Knows
  <2> QED BY <2>1, <2>2, <2>3 DEF CalmInv, FileMatches, HolderKnows, Up
<1>11. CASE Spawn(p)
  <2>1. PICK d \in Daemons : Starts(d, proc[p].version, p) /\ Sees(p, "polling", d)
    BY <1>11 DEF Spawn
  <2>2. /\ proc'[p].pc = "polling" /\ proc'[p].seen = d
        /\ \A q \in Procs : q # p => proc'[q] = proc[q]
    BY <2>1, <1>a, SeesType DEF ProcPCs
  <2>3. /\ daemon'[d].pc = "starting"
        /\ \A e \in Daemons : e # d => daemon'[e] = daemon[e]
    <3>1. proc[p].version \in Versions
      BY DEF Base, TypeOK
    <3> QED BY <1>0, <2>1, <3>1, StartsType DEF Base
  <2>4. file = None /\ file' = None /\ \A e \in Daemons : ~Up(e)
    BY <1>11, <1>0 DEF Spawn, Knows
  <2>5. \A e \in Daemons : Up(e)' => e = d
    BY <2>3, <2>4 DEF Up
  <2>6. \A q \in Proxies : Knows(q)'
    BY <1>11, <1>0, <1>c, <2>2, <2>4, <2>5, NoneOut DEF Spawn, Knows
  <2> QED BY <1>0, <2>2, <2>3, <2>4, <2>5, <2>6
          DEF CalmInv, FileMatches, HolderKnows, Up
<1>12. CASE PollFinds(p)
  <2>1. /\ proc'[p].pc = "returned"
        /\ \A q \in Procs : q # p => proc'[q] = proc[q]
    BY <1>12, <1>a, GoesType DEF PollFinds, Ends, ProcPCs
  <2>2. daemon[proc[p].seen].pc # "starting"
    BY <1>12, <1>0, <1>a DEF PollFinds, Knows, Alive, Running, CalmInv, FileMatches
  <2>3. Knows(p)'
    BY <2>1 DEF Knows
  <2> QED BY <1>12, <1>b, <2>1, <2>2, <2>3 DEF PollFinds
<1>13. CASE PollFails(p)
  <2>1. /\ proc'[p].pc = "failed"
        /\ \A q \in Procs : q # p => proc'[q] = proc[q]
    BY <1>13, <1>a, GoesType DEF PollFails, Ends, ProcPCs
  <2>2. proc[p].seen \in Daemons => daemon[proc[p].seen].pc # "starting"
    BY <1>13 DEF PollFails, Running
  <2>3. Knows(p)'
    BY <2>1 DEF Knows
  <2> QED BY <1>13, <1>b, <2>1, <2>2, <2>3 DEF PollFails
<1>14. CASE PollDeadline(p)
  BY <1>0, <1>14 DEF PollDeadline
<1>15. CASE ProxyDies(p)
  BY <1>0, <1>15 DEF ProxyDies
<1>16. CASE ProxyLeaves(p)
  <2>1. /\ proc'[p].pc = "ended" /\ proc[p].pc = "returned"
        /\ \A q \in Procs : q # p => proc'[q] = proc[q]
    BY <1>16, <1>a, GoesType DEF ProxyLeaves, ProcPCs
  <2>2. Knows(p)'
    BY <2>1 DEF Knows
  <2> QED BY <1>16, <1>b, <2>1, <2>2 DEF ProxyLeaves
<1> QED BY <1>1, <1>2, <1>3, <1>4, <1>5, <1>6, <1>7, <1>8, <1>9, <1>10, <1>11,
           <1>12, <1>13, <1>14, <1>15, <1>16 DEF ProcStep

LEMMA DaemonCalm ==
  ASSUME Base, Calm, CalmInv, NEW d \in Daemons, DaemonStep(d)
  PROVE  CalmInv'
<1> USE DEF Critical
<1>0. TypeOK /\ UNCHANGED proc
  BY DEF Base, DaemonStep, WriteState, Serving, Stopping, RemoveOwnState, Dies
<1>1. CASE WriteState(d)
  <2>1. /\ daemon'[d].pc = "written" /\ daemon[d].pc = "starting" /\ file' = d
        /\ \A e \in Daemons : e # d => daemon'[e] = daemon[e]
    BY <1>0, <1>1, DaemonAtType DEF WriteState, DaemonPCs
  <2>2. PICK p \in Proxies : proc[p].pc = "polling" /\ proc[p].seen = d
    BY <2>1 DEF CalmInv, HolderKnows
  <2>3. \A e \in Daemons : Up(e) => e = d
    BY <2>2 DEF CalmInv, HolderKnows, Knows
  <2>4. \A e \in Daemons : Up(e)' => e = d
    BY <2>1, <2>3 DEF Up
  <2>5. \A q \in Proxies : proc[q].pc \in Critical => q = p
    BY <2>2, OneHolder DEF Base
  <2>6. \A q \in Proxies : Knows(q)'
    BY <1>0, <2>1, <2>2, <2>4, <2>5, NoneOut DEF Knows
  <2> QED BY <2>1, <2>4, <2>6 DEF CalmInv, FileMatches, HolderKnows, Up
<1>2. CASE RemoveOwnState(d)
  <2>1. /\ daemon'[d].pc = "exiting" /\ daemon[d].pc = "stopping" /\ file' = None
        /\ \A e \in Daemons : e # d => daemon'[e] = daemon[e]
    BY <1>0, <1>2, DaemonAtType DEF RemoveOwnState, DaemonPCs
  <2>2. \A e \in Daemons : Up(e) => e = d
    BY <2>1 DEF CalmInv, FileMatches, HolderKnows, Knows, Up
  <2>3. \A e \in Daemons : ~Up(e)'
    BY <2>1, <2>2 DEF Up
  <2>4. \A q \in Proxies : Knows(q)'
    BY <1>0, <2>1, <2>3 DEF Knows, CalmInv, HolderKnows
  <2> QED BY <2>1, <2>3, <2>4 DEF CalmInv, FileMatches, HolderKnows, Up
<1>3. CASE Serving(d) \/ Stopping(d) \/ Dies(d)
  <2>1. PICK pc \in {"serving", "stopping", "dead"} :
          /\ DaemonAt(d, pc) /\ daemon[d].pc # "none" /\ file' = file
          /\ pc # "dead" => daemon[d].pc \in {"written", "serving"}
    BY <1>3 DEF Serving, Stopping, Dies, Alive, Running
  <2>2. daemon'[d].pc = pc /\ \A e \in Daemons : e # d => daemon'[e] = daemon[e]
    BY <1>0, <2>1, DaemonAtType DEF DaemonPCs
  <2>3. \A e \in Daemons : Fades(e)
    BY <2>1, <2>2 DEF Up, Fades
  <2> QED BY <1>0, <2>1, <2>3, QuietDaemon
<1> QED BY <1>1, <1>2, <1>3 DEF DaemonStep

-----------------------------------------------------------------------------
(* The theorems *)

LEMMA Preserved == DiscoveryInv /\ [Next]_vars => DiscoveryInv'
<1> SUFFICES ASSUME DiscoveryInv, [Next]_vars PROVE DiscoveryInv'
  OBVIOUS
<1>0. Base /\ (Calm => CalmInv)
  BY DEF DiscoveryInv, Base, CalmInv
<1>1. CASE UNCHANGED vars
  BY <1>1 DEF vars, DiscoveryInv, TypeOK, LockHeld, FileMatches, HolderKnows,
              Knows, Up, Calm
<1>2. CASE \E p \in Procs : ProcStep(p) \/ ProxyDies(p) \/ ProxyLeaves(p)
  BY <1>0, <1>2, ProcBase, ProcCalm DEF DiscoveryInv, Base, CalmInv, Calm
<1>3. CASE \E d \in Daemons : DaemonStep(d)
  BY <1>0, <1>3, DaemonBase, DaemonCalm DEF DiscoveryInv, Base, CalmInv, Calm
<1>4. CASE Serve
  BY <1>0, <1>4, DaemonBase DEF DiscoveryInv, Base, Calm, Serve
<1> QED BY <1>1, <1>2, <1>3, <1>4 DEF Next

\* In every state the lock has the holder that is between _spawn_lock's enter
\* and exit, and, undisturbed, the holder's view of file and daemons is right.
THEOREM DiscoveryInvariant == Spec => []DiscoveryInv
<1>1. Init => DiscoveryInv
  BY InitSafe
<1>2. DiscoveryInv /\ [Next]_vars => DiscoveryInv'
  BY Preserved
<1> QED BY <1>1, <1>2, PTL DEF Spec

\* With no stop command, no manual serve and no interrupted proxy, however many
\* proxies race: no daemon is started while one is up.
THEOREM NoSecondDaemon ==
  ASSUME Calm
  PROVE  Spec => []OneDaemonUp
<1>1. DiscoveryInv => OneDaemonUp
  <2> SUFFICES ASSUME DiscoveryInv, NEW d \in Daemons, NEW e \in Daemons,
                      Up(d), Up(e)
               PROVE  d = e
    BY DEF OneDaemonUp
  <2>1. FileMatches /\ HolderKnows
    BY DEF DiscoveryInv
  <2>2. CASE daemon[d].pc = "starting" \/ daemon[e].pc = "starting"
    BY <2>1, <2>2 DEF HolderKnows, Knows, Critical
  <2>3. CASE daemon[d].pc # "starting" /\ daemon[e].pc # "starting"
    BY <2>1, <2>3 DEF FileMatches
  <2> QED BY <2>2, <2>3
<1> QED BY <1>1, DiscoveryInvariant, PTL

\* Under the same conditions a daemon that serves is named by the state file.
THEOREM ServingIsNamed ==
  ASSUME Calm
  PROVE  Spec => []Discoverable
<1>1. DiscoveryInv => Discoverable
  BY DEF DiscoveryInv, FileMatches, Discoverable, Up
<1> QED BY <1>1, DiscoveryInvariant, PTL

-----------------------------------------------------------------------------
(* Proxies and stop commands come to an end: each goes through its states in *)
(* one order, and what it waits for is never another that waits.             *)

\* The order of the states of _ensure_daemon and stop.
Rank(pc) ==
  CASE pc = "new" -> 0
    [] pc = "check" -> 1
    [] pc = "wantLock" -> 2
    [] pc = "locked" -> 3
    [] pc = "checkLocked" -> 4
    [] pc = "terminate" -> 5
    [] pc = "waiting" -> 6
    [] pc = "remove" -> 7
    [] pc = "spawn" -> 8
    [] pc = "polling" -> 9
    [] pc = "returned" -> 10
    [] pc = "failed" -> 11
    [] OTHER -> 12

\* No process goes back, so each makes at most twelve steps.
ProcsOnlyGoOn ==
  [][\A p \in Procs :
       proc'[p] # proc[p] => Rank(proc'[p].pc) > Rank(proc[p].pc)]_vars

Over(p) == proc[p].pc \in {"returned", "failed", "ended"}

\* One of p's actions has a guard that holds: in "waiting" ExitSeen or Kill.
CanStep(p) ==
  \/ proc[p].pc \in {"new", "check", "locked", "checkLocked", "terminate",
                     "waiting", "remove"}
  \/ p \in Proxies /\ proc[p].pc = "wantLock" /\ lock = {}
  \/ /\ p \in Proxies
     /\ proc[p].pc = "spawn"
     /\ \E d \in Daemons : daemon[d].pc = "none"
  \/ /\ proc[p].pc = "polling"
     /\ Interrupts \/ Alive(file) \/ ~Running(proc[p].seen)

\* It polls for a daemon that runs and cannot be found: a matter of the deadline
\* (15 s), which passes only where Interrupts says so.
AwaitsDaemon(p) ==
  proc[p].pc = "polling" /\ proc[p].seen \in Daemons /\ Running(proc[p].seen)

\* The bound on the daemons keeps it from starting one.
OutOfDaemons(p) ==
  p \in Proxies /\ proc[p].pc = "spawn" /\ \A d \in Daemons : daemon[d].pc # "none"

GoesOn(p) == CanStep(p) \/ AwaitsDaemon(p) \/ OutOfDaemons(p)

\* A process that waits for the lock waits for one that is not over, and that
\* does not wait for the lock itself.
ProcsGoOn ==
  \A p \in Procs :
    \/ Over(p)
    \/ GoesOn(p)
    \/ /\ proc[p].pc = "wantLock"
       /\ \E q \in Proxies : lock = {q} /\ proc[q].pc # "wantLock" /\ GoesOn(q)

\* Where a process can be: stop takes no lock and starts nothing, and what a
\* proxy polls for it has started.
Places ==
  /\ \A p \in Stops :
       proc[p].pc \in {"new", "check", "terminate", "waiting", "remove", "returned"}
  /\ \A p \in Procs : proc[p].pc = "polling" => proc[p].seen \in Daemons

\* A step of a process takes it on, and keeps it where it can be.
LEMMA StepGoesOn ==
  ASSUME TypeOK, Places, NEW p \in Procs, ProcStep(p) \/ ProxyDies(p) \/ ProxyLeaves(p)
  PROVE  /\ \A q \in Procs : q # p => proc'[q] = proc[q]
         /\ Rank(proc'[p].pc) > Rank(proc[p].pc)
         /\ Places'
<1>0. /\ p \in Proxies \/ p \in Stops
      /\ Proxies \cap Stops = {} /\ Proxies \subseteq Procs /\ Stops \subseteq Procs
      /\ file \in Daemons \cup {None}
      /\ proc[p].pc \in ProcPCs
      /\ p \in Stops => proc[p].pc \in {"new", "check", "terminate", "waiting",
                                        "remove", "returned"}
  BY DiscoveryAssumption DEF TypeOK, Procs, Places
<1>a. ASSUME NEW pc \in ProcPCs, Goes(p, pc), Rank(pc) > Rank(proc[p].pc),
             pc # "polling",
             p \in Stops => pc \in {"terminate", "waiting", "remove", "returned"}
      PROVE  /\ \A q \in Procs : q # p => proc'[q] = proc[q]
             /\ Rank(proc'[p].pc) > Rank(proc[p].pc)
             /\ Places'
  <2>1. /\ proc'[p].pc = pc /\ proc'[p].seen = proc[p].seen
        /\ \A q \in Procs : q # p => proc'[q] = proc[q]
    BY <1>a, GoesType
  <2> QED BY <1>0, <1>a, <2>1 DEF Places
<1>b. ASSUME NEW pc \in ProcPCs, NEW d \in Daemons \cup {None}, Sees(p, pc, d),
             Rank(pc) > Rank(proc[p].pc),
             pc = "polling" => d \in Daemons,
             p \in Stops => pc = "check"
      PROVE  /\ \A q \in Procs : q # p => proc'[q] = proc[q]
             /\ Rank(proc'[p].pc) > Rank(proc[p].pc)
             /\ Places'
  <2>1. /\ proc'[p].pc = pc /\ proc'[p].seen = d
        /\ \A q \in Procs : q # p => proc'[q] = proc[q]
    BY <1>b, SeesType
  <2> QED BY <1>0, <1>b, <2>1 DEF Places
<1> USE DEF ProcPCs, Rank
<1>1. CASE Read(p)
  BY <1>0, <1>b, <1>1 DEF Read
<1>2. CASE Check(p)
  BY <1>0, <1>a, <1>2 DEF Check
<1>3. CASE CheckStop(p)
  BY <1>0, <1>a, <1>3 DEF CheckStop
<1>4. CASE Lock(p)
  BY <1>0, <1>a, <1>4 DEF Lock
<1>5. CASE ReadLocked(p)
  BY <1>0, <1>b, <1>5 DEF ReadLocked, UnderLock
<1>6. CASE CheckLocked(p)
  BY <1>0, <1>a, <1>6 DEF CheckLocked, Ends
<1>7. CASE Terminate(p)
  BY <1>0, <1>a, <1>7 DEF Terminate
<1>8. CASE ExitSeen(p) \/ Kill(p)
  BY <1>0, <1>a, <1>8 DEF ExitSeen, Kill
<1>9. CASE RemoveState(p)
  BY <1>0, <1>a, <1>9 DEF RemoveState
<1>10. CASE Spawn(p)
  <2>1. PICK d \in Daemons : Sees(p, "polling", d)
    BY <1>10 DEF Spawn
  <2> QED BY <1>0, <1>b, <1>10, <2>1 DEF Spawn
<1>11. CASE PollFinds(p) \/ PollFails(p) \/ PollDeadline(p)
  <2>1. /\ p \in Proxies /\ p \notin Stops /\ proc[p].pc = "polling"
        /\ Goes(p, "returned") \/ Goes(p, "failed")
    BY <1>0, <1>11 DEF PollFinds, PollFails, PollDeadline, Ends
  <2> QED BY <1>a, <2>1
<1>12. CASE ProxyDies(p) \/ ProxyLeaves(p)
  BY <1>0, <1>a, <1>12 DEF ProxyDies, ProxyLeaves
<1> QED BY <1>1, <1>2, <1>3, <1>4, <1>5, <1>6, <1>7, <1>8, <1>9, <1>10, <1>11,
           <1>12 DEF ProcStep

\* The holder of the lock never waits for the lock.
LEMMA HolderGoesOn ==
  ASSUME Base, Places, NEW p \in Procs, proc[p].pc \in Critical
  PROVE  GoesOn(p) /\ proc[p].pc # "wantLock"
<1>0. /\ p \in Proxies \/ p \in Stops
      /\ p \in Stops => proc[p].pc \in {"terminate", "waiting", "remove"}
  BY DEF Places, Procs, Critical
<1>1. CASE proc[p].pc \in {"locked", "checkLocked", "terminate", "waiting", "remove"}
  BY <1>1 DEF GoesOn, CanStep
<1>2. CASE proc[p].pc = "spawn"
  BY <1>0, <1>2 DEF GoesOn, CanStep, OutOfDaemons
<1>3. CASE proc[p].pc = "polling"
  BY <1>3 DEF GoesOn, CanStep, AwaitsDaemon, Places
<1> QED BY <1>1, <1>2, <1>3 DEF Critical

LEMMA ProcsGoOnAlways == Base /\ Places => ProcsGoOn
<1> SUFFICES ASSUME Base, Places, NEW p \in Procs
             PROVE  \/ Over(p)
                    \/ GoesOn(p)
                    \/ /\ proc[p].pc = "wantLock"
                       /\ \E q \in Proxies :
                            lock = {q} /\ proc[q].pc # "wantLock" /\ GoesOn(q)
  BY DEF ProcsGoOn
<1>0. proc[p].pc \in ProcPCs
  BY DEF Base, TypeOK
<1>1. CASE proc[p].pc \in Critical
  BY <1>1, HolderGoesOn
<1>2. CASE proc[p].pc \in {"new", "check", "returned", "failed", "ended"}
  BY <1>2 DEF GoesOn, CanStep, Over
<1>3. CASE proc[p].pc = "wantLock"
  <2>1. p \in Proxies
    BY <1>3 DEF Places, Procs
  <2>2. CASE lock = {}
    BY <1>3, <2>1, <2>2 DEF GoesOn, CanStep
  <2>3. CASE lock # {}
    <3>1. PICK q \in lock : TRUE
      BY <2>3
    <3>2. q \in Proxies /\ q \in Procs /\ proc[q].pc \in Critical /\ lock = {q}
      BY <3>1 DEF Base, TypeOK, LockHeld, Procs
    <3> QED BY <1>3, <3>2, HolderGoesOn
  <2> QED BY <2>2, <2>3
<1> QED BY <1>0, <1>1, <1>2, <1>3 DEF ProcPCs, Critical

LEMMA PlacesKept == Base /\ Places /\ [Next]_vars => Base' /\ Places'
<1> SUFFICES ASSUME Base, Places, [Next]_vars PROVE Base' /\ Places'
  OBVIOUS
<1>1. CASE UNCHANGED vars
  BY <1>1 DEF vars, Base, TypeOK, LockHeld, Places
<1>2. CASE \E p \in Procs : ProcStep(p) \/ ProxyDies(p) \/ ProxyLeaves(p)
  BY <1>2, ProcBase, StepGoesOn DEF Base
<1>3. CASE (\E d \in Daemons : DaemonStep(d)) \/ Serve
  <2>1. proc' = proc
    BY <1>3 DEF DaemonStep, WriteState, Serving, Stopping, RemoveOwnState, Dies, Serve
  <2> QED BY <1>3, <2>1, DaemonBase DEF Places
<1> QED BY <1>1, <1>2, <1>3 DEF Next

LEMMA PlacesAlways == Spec => [](Base /\ Places)
<1>1. Init => Base /\ Places
  <2>1. Init => Base
    BY InitSafe DEF DiscoveryInv, Base
  <2>2. ASSUME Init PROVE Places
    <3>1. \A p \in Procs : proc[p].pc = "new"
      BY <2>2 DEF Init
    <3> QED BY <3>1 DEF Places, Procs
  <2> QED BY <2>1, <2>2
<1> QED BY <1>1, PlacesKept, PTL DEF Spec

\* Whatever crashes, stops, starts by hand or kills its proxy: nobody waits for
\* a lock that no process holds or whose holder waits for the lock, and nobody is
\* left without a step, but for the bound on the daemons and the poll of a daemon
\* that runs (_spawn_lock's exit, _ensure_daemon's and _stop_daemon's deadlines).
THEOREM ProcsNeverHang == Spec => []ProcsGoOn
<1> QED BY PlacesAlways, ProcsGoOnAlways, PTL

\* Each process takes at most twelve steps: no read, wait or retry leads back.
THEOREM ProcsGoOneWay == Spec => ProcsOnlyGoOn
<1>1. Base /\ Places /\ [Next]_vars =>
        [\A p \in Procs :
           proc'[p] # proc[p] => Rank(proc'[p].pc) > Rank(proc[p].pc)]_vars
  <2> SUFFICES ASSUME Base, Places, Next, NEW p \in Procs, proc'[p] # proc[p]
               PROVE  Rank(proc'[p].pc) > Rank(proc[p].pc)
    BY DEF vars
  <2>1. PICK q \in Procs : ProcStep(q) \/ ProxyDies(q) \/ ProxyLeaves(q)
    BY DEF Next, DaemonStep, WriteState, Serving, Stopping, RemoveOwnState, Dies, Serve
  <2> QED BY <2>1, StepGoesOn DEF Base
<1> QED BY <1>1, PlacesAlways, PTL DEF Spec, ProcsOnlyGoOn
=============================================================================
