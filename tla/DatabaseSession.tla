-------------------------- MODULE DatabaseSession --------------------------
(* The session of one worker process and the database files it opens, saves and
   closes: Session.open, save, close and analyze of both backends, the tools that
   call them, and main's finally.  A call runs on the main thread, engine call
   by engine call; the process may be killed between any two.  In Ghidra a file
   is a project, which holds at most one program.  In IDA it is the database
   beside the binary, and idalib has one open at most.  What the engine has open
   and what the session knows of it are kept apart: the session only has
   references, and drops them whether the engine closed or not. *)
EXTENDS Naturals

CONSTANTS
  Databases,  \* the files that open_database names
  Snapshots,  \* the files that IDA's take_snapshot writes
  Renamed,    \* the files whose program Ghidra's loader names otherwise
  None,       \* no file
  MaxWork     \* bound: the edits of a behaviour

Files == Databases \cup Snapshots
Backends == {"ghidra", "ida"}

ASSUME SessionAssumption ==
  None \notin Files /\ Renamed \subseteq Databases /\ MaxWork \in Nat

VARIABLES
  backend,
  disk,     \* per file: does it exist, and the program saved in it
  current,  \* _current_path: the file of the open database, or None
  memory,   \* the program that the session, or the running open, refers to
  filed,    \* Ghidra: the program has a file in its project (canSave)
  opened,   \* the files whose project or database the engine has open
  held,     \* Ghidra: the files whose program a consumer of this process holds
  call,     \* the running call, and how far it is
  answer,   \* how the last call ended, and what its answer says
  failed,   \* the files a call of this process failed on
  work      \* the number of edits so far

callVars == <<call, answer, failed>>
engine == <<opened, held>>
engineVars == <<memory, filed, engine>>
vars == <<backend, disk, current, memory, filed, opened, held, call, answer, failed, work>>

\* A program: its last edit, whether a full analysis has run over it, and whether
\* it says so (Ghidra's "analyzed" option, IDA's empty auto-analysis queue).
Programs == [present : BOOLEAN, edit : 0 .. MaxWork, ran : BOOLEAN, marked : BOOLEAN]
NoProgram == [present |-> FALSE, edit |-> 0, ran |-> FALSE, marked |-> FALSE]
Imported == [present |-> TRUE, edit |-> 0, ran |-> FALSE, marked |-> FALSE]
Analyzed(p) == [p EXCEPT !.ran = TRUE, !.marked = TRUE]

DiskFiles == [exists : BOOLEAN, program : Programs]
Absent == [exists |-> FALSE, program |-> NoProgram]
Holding(p) == [exists |-> TRUE, program |-> p]

Ops == {"none", "open", "close", "restore", "exit"}
\* The engine call that comes next: of the close that an open, a restore or the
\* exit begins with, then of the open.
Closing == {"save", "release", "shut"}
Opening == {"prepare", "project", "load", "options", "analysis", "commit"}
Calls == [op : Ops, from : Files \cup {None}, file : Files \cup {None},
          force : BOOLEAN, analysis : BOOLEAN,
          save : BOOLEAN, at : Closing \cup Opening \cup {"idle"}]
Idle == [op |-> "none", from |-> None, file |-> None, force |-> FALSE, analysis |-> FALSE,
         save |-> TRUE, at |-> "idle"]

\* "ended": main's finally is through; "killed": the process ended without it.
Endings == {"none", "ok", "failed", "ended", "killed"}
Answers == [status : Endings, analyzed : BOOLEAN]
Answer(s, a) == [status |-> s, analyzed |-> a]

Init ==
  /\ backend \in Backends
  /\ disk = [f \in Files |-> Absent]
  /\ current = None /\ memory = NoProgram /\ filed = FALSE
  /\ opened = {} /\ held = {}
  /\ call = Idle /\ answer = Answer("none", FALSE) /\ failed = {}
  /\ work = 0

Ready == call = Idle
At(step) == call.at = step
GoTo(step) == call' = [call EXCEPT !.at = step] /\ UNCHANGED <<answer, failed>>
Succeeds(analyzed) == call' = Idle /\ answer' = Answer("ok", analyzed) /\ UNCHANGED failed
Fails(f) == call' = Idle /\ answer' = Answer("failed", FALSE) /\ failed' = failed \cup {f}

-----------------------------------------------------------------------------
(* The tools that leave the session as it is *)

\* A tool edits the open program; IDA queues what the edit touches for analysis.
Edit ==
  /\ Ready /\ current # None /\ work < MaxWork
  /\ work' = work + 1
  /\ \E m \in {memory.marked} \cup (IF backend = "ida" THEN {FALSE} ELSE {}) :
       memory' = [memory EXCEPT !.edit = work', !.marked = m]
  /\ UNCHANGED <<backend, disk, current, filed, engine, callVars>>

\* Mutant of ReanalyzedRange: the pass marks the program as analyzed.
ReanalyzedAll == [memory EXCEPT !.edit = work', !.marked = TRUE]

\* A partial pass does not.
ReanalyzedRange == [memory EXCEPT !.edit = work']

\* analyze_database: it ends, or it raises (Ghidra) or is cut short by a
\* cancellation, which leaves IDA's queue as full as analyze has made it.
AnalyzeDatabase ==
  /\ Ready /\ current # None
  /\ \/ memory' = Analyzed(memory) /\ Succeeds(FALSE)
     \/ /\ memory' = IF backend = "ida" THEN [memory EXCEPT !.marked = FALSE] ELSE memory
        /\ Fails(current)
  /\ UNCHANGED <<backend, disk, current, filed, engine, work>>

\* reanalyze_range of Ghidra, which is a partial pass (mark_analyzed=False).
ReanalyzeRange ==
  /\ Ready /\ current # None /\ backend = "ghidra" /\ work < MaxWork
  /\ work' = work + 1
  /\ memory' = ReanalyzedRange
  /\ UNCHANGED <<backend, disk, current, filed, engine, callVars>>

\* Session.save: into the program's file; or as a new one, for which a stale file
\* of that name is deleted first.
SavedIn(f) == [disk EXCEPT ![f] = Holding(memory)]
Stale(f) == backend = "ghidra" /\ ~filed /\ disk[f].program.present
\* A save that has not got through may have deleted the stale file.
NotSaved(f) ==
  {disk} \cup IF Stale(f) THEN {[disk EXCEPT ![f].program = NoProgram]} ELSE {}

SaveDatabase ==
  /\ Ready /\ current # None
  /\ \/ disk' = SavedIn(current) /\ filed' = TRUE /\ (Succeeds(FALSE) \/ Fails(current))
     \/ disk' \in NotSaved(current) /\ filed' = filed /\ Fails(current)
  /\ UNCHANGED <<backend, current, memory, engine, work>>

\* take_snapshot of IDA: what is open, saved or not, as a file of its own.
TakeSnapshot(s) ==
  /\ Ready /\ current # None /\ backend = "ida"
  /\ ~disk[s].exists
  /\ \/ disk' = [disk EXCEPT ![s] = Holding(memory)] /\ Succeeds(FALSE)
     \/ disk' = disk /\ Fails(current)
  /\ UNCHANGED <<backend, current, engineVars, work>>

-----------------------------------------------------------------------------
(* The calls that open and close *)

\* What is open is closed first.
Start(op, f, force, analysis, save) ==
  /\ call' = [op |-> op, from |-> IF op = "restore" THEN current ELSE None, file |-> f,
              force |-> force, analysis |-> analysis,
              save |-> save, at |-> IF current # None THEN "save" ELSE "prepare"]
  /\ answer' = Answer("none", FALSE)

OpenDatabase(f) ==
  /\ Ready
  /\ \E force, analysis \in BOOLEAN : Start("open", f, force, analysis, TRUE)
  /\ UNCHANGED <<backend, disk, current, engineVars, failed, work>>

\* restore_snapshot of IDA: close, then open the snapshot's file.
RestoreSnapshot(s) ==
  /\ Ready /\ current # None /\ backend = "ida" /\ disk[s].exists
  /\ Start("restore", s, FALSE, FALSE, TRUE)
  /\ UNCHANGED <<backend, disk, current, engineVars, failed, work>>

CloseDatabase ==
  /\ Ready /\ current # None
  /\ \E save \in BOOLEAN : Start("close", None, FALSE, FALSE, save)
  /\ UNCHANGED <<backend, disk, current, engineVars, failed, work>>

\* stdin is closed, or a SIGTERM meets an idle session: main's finally.
Exit ==
  /\ Ready /\ current # None
  /\ Start("exit", None, FALSE, FALSE, TRUE)
  /\ UNCHANGED <<backend, disk, current, engineVars, failed, work>>

-----------------------------------------------------------------------------
(* Session.close *)

\* Mutant of Written: it saves only what the caller of close_database asks for.
WrittenForClose ==
  IF call.op = "close" /\ call.save
  THEN SavedIn(current) ELSE disk

Written == IF call.save THEN SavedIn(current) ELSE disk

\* The same, of a call that raised or was killed here.
WrittenOrNot ==
  IF call.save /\ At("save") THEN {SavedIn(current)} \cup NotSaved(current) ELSE {disk}

\* The engine call after this one: Ghidra saves, releases the program and closes
\* the project.
Save ==
  /\ At("save") /\ backend = "ghidra"
  /\ disk' = Written
  /\ GoTo("release")
  /\ UNCHANGED <<backend, current, engineVars, work>>

\* Mutant of Released: the project is closed while the program is held.
ReleasedLater == held

Released == held \ {current}

Release ==
  /\ At("release")
  /\ held' = Released
  /\ GoTo("shut")
  /\ UNCHANGED <<backend, disk, current, memory, filed, opened, work>>

\* What close's finally drops: its references, and nothing in the engine.
Forget == current' = None /\ memory' = NoProgram /\ filed' = FALSE

\* A close is all there was to do, or an open goes on.
Closed ==
  CASE call.op = "close" -> Succeeds(FALSE)
    [] call.op = "exit" ->
         call' = Idle /\ answer' = Answer("ended", FALSE) /\ failed' = {}
    [] OTHER -> GoTo("prepare")

\* The process is gone, and with it what it had open, once main's finally is
\* through.
LeftOpen(s) == IF call.op = "exit" THEN {} ELSE s

Shut ==
  /\ At("shut")
  /\ opened' = LeftOpen(opened \ {current}) /\ held' = LeftOpen(held)
  /\ Forget
  /\ Closed
  /\ UNCHANGED <<backend, disk, work>>

\* close_database of idalib saves and closes.
IdaCloses ==
  /\ At("save") /\ backend = "ida"
  /\ disk' = Written
  /\ opened' = LeftOpen(opened \ {current}) /\ held' = held
  /\ Forget
  /\ Closed
  /\ UNCHANGED <<backend, work>>

\* The engine call of the close that raises does what it should or does not, and
\* those after it are skipped.
EngineAsFarAs ==
  \/ UNCHANGED engine
  \/ At("release") /\ held' = held \ {current} /\ UNCHANGED opened
  \/ (At("shut") \/ backend = "ida") /\ opened' = opened \ {current} /\ UNCHANGED held

\* Mutant of CloseFails: a close that failed leaves the session open.
CloseFailsOpen ==
  /\ call.at \in Closing /\ call.op # "exit"
  /\ disk' \in WrittenOrNot
  /\ EngineAsFarAs
  /\ Fails(current)
  /\ UNCHANGED <<backend, current, memory, filed, work>>

\* An engine call of close raises: the session forgets the database all the same.
\* The exit only logs it.
CloseFails ==
  /\ call.at \in Closing
  /\ disk' \in WrittenOrNot
  /\ Forget
  /\ IF call.op = "exit"
     THEN /\ opened' = {} /\ held' = {}
          /\ call' = Idle /\ answer' = Answer("failed", FALSE) /\ failed' = {}
     ELSE EngineAsFarAs /\ Fails(current)
  /\ UNCHANGED <<backend, work>>

-----------------------------------------------------------------------------
(* Session.open, once nothing is open *)

\* force_new removes the files.
Prepare ==
  /\ At("prepare")
  /\ disk' = IF call.force THEN [disk EXCEPT ![call.file] = Absent] ELSE disk
  /\ GoTo("project")
  /\ UNCHANGED <<backend, current, engineVars, work>>

\* A project is locked as long as it is open, or closed with a program in use
\* (DefaultProjectData.close defers its dispose).
Locked == IF backend = "ghidra" THEN opened \cup held ELSE {}

\* open_project: it creates a project that is not there, and refuses one that is
\* locked.
Project ==
  /\ At("project") /\ backend = "ghidra"
  /\ call.file \notin Locked
  /\ opened' = opened \cup {call.file}
  /\ disk' = [disk EXCEPT ![call.file].exists = TRUE]
  /\ GoTo("load")
  /\ UNCHANGED <<backend, current, memory, filed, held, work>>

\* Mutant of Stored: a program without analysis is imported again.
StoredAnalyzed(f) == disk[f].program.marked /\ f \notin Renamed

\* consume_program looks for the program under the name of the binary.
Stored(f) == disk[f].program.present /\ f \notin Renamed

\* consume_program; or the import, of a program the project has not got.
Load ==
  /\ At("load")
  /\ held' = held \cup {call.file}
  /\ filed' = Stored(call.file)
  /\ IF Stored(call.file)
     THEN memory' = disk[call.file].program /\ GoTo("analysis")
     ELSE memory' = Imported /\ GoTo("options")
  /\ UNCHANGED <<backend, disk, current, opened, work>>

\* "Initialize analysis options"
Options ==
  /\ At("options")
  /\ GoTo("analysis")
  /\ UNCHANGED <<backend, disk, current, engineVars, work>>

Analyze ==
  /\ At("analysis")
  /\ memory' = IF call.analysis THEN Analyzed(memory) ELSE memory
  /\ GoTo("commit")
  /\ UNCHANGED <<backend, disk, current, filed, engine, work>>

\* The session's fields; then the capabilities and clearUndo, which may raise and
\* leave the session open.  The answer tells whether the program was analyzed.
Commit ==
  /\ At("commit")
  /\ current' = call.file
  /\ Succeeds(memory.marked) \/ Fails(call.file)
  /\ UNCHANGED <<backend, disk, engineVars, work>>

\* open_database of idalib, on a stored database or a fresh one.  The answer
\* takes only a stored one for analyzed; before it the capabilities may raise.
IdaOpens ==
  /\ At("project") /\ backend = "ida"
  /\ LET stored == disk[call.file].exists
         program == IF stored THEN disk[call.file].program ELSE Imported
     IN /\ memory' = IF call.analysis THEN Analyzed(program) ELSE program
        /\ Succeeds(stored /\ memory'.marked) \/ Fails(call.file)
  /\ opened' = {call.file} /\ current' = call.file
  /\ UNCHANGED <<backend, disk, filed, held, work>>

\* Something raises before the session is set.  A project that was opened is
\* closed, unless that fails or a GhidraError passes it by; a program that was
\* loaded is not released.
OpenFails ==
  /\ call.at \in Opening \ {"commit"}
  /\ Forget
  /\ Fails(call.file)
  /\ \/ opened' = opened
     \/ call.at \notin {"prepare", "project"} /\ opened' = opened \ {call.file}
  /\ UNCHANGED <<backend, disk, held, work>>

-----------------------------------------------------------------------------
(* The end of the process *)

\* SIGKILL, a crash; or a SIGTERM in the middle of an open or a close, which
\* leaves main's finally nothing that is_open.
Killed ==
  /\ call # Idle \/ current # None \/ opened \cup held # {}
  /\ disk' \in WrittenOrNot
  /\ Forget
  /\ call' = Idle /\ answer' = Answer("killed", FALSE) /\ failed' = {}
  /\ opened' = {} /\ held' = {}
  /\ UNCHANGED <<backend, work>>

Next ==
  \/ Edit \/ AnalyzeDatabase \/ ReanalyzeRange \/ SaveDatabase
  \/ \E s \in Snapshots : TakeSnapshot(s) \/ RestoreSnapshot(s)
  \/ \E f \in Databases : OpenDatabase(f)
  \/ CloseDatabase \/ Exit
  \/ Save \/ Release \/ Shut \/ IdaCloses \/ CloseFails
  \/ Prepare \/ Project \/ Load \/ Options \/ Analyze \/ Commit \/ IdaOpens \/ OpenFails
  \/ Killed

Spec == Init /\ [][Next]_vars

-----------------------------------------------------------------------------
(* Properties *)

\* The types of the variables.
TypeOK ==
  /\ backend \in Backends
  /\ disk \in [Files -> DiskFiles]
  /\ current \in Files \cup {None}
  /\ memory \in Programs /\ filed \in BOOLEAN
  /\ opened \subseteq Files /\ held \subseteq Files
  /\ call \in Calls /\ answer \in Answers /\ failed \subseteq Files
  /\ work \in 0 .. MaxWork

\* is_open, which looks at the session's fields alone, may be trusted: between
\* calls a session that is open has its database open in the engine, and in
\* Ghidra its program in use, whatever earlier opens, saves and closes have
\* failed on this or another file and left behind.
SessionHoldsItsProgram ==
  Ready /\ current # None =>
    /\ memory.present /\ current \in opened
    /\ backend = "ghidra" => current \in held

\* What the proofs add: how far a call is tells what the engine has.
CallsInOrder ==
  /\ At("idle") <=> Ready
  /\ call.op = "none" <=> Ready
  /\ call.op \in {"open", "restore"} <=> call.file # None
  /\ Ready /\ current = None => ~memory.present
  /\ call.at \in Closing => current # None /\ current \in opened /\ memory.present
  /\ call.at \in {"save", "release"} /\ backend = "ghidra" => current \in held
  /\ call.at \in Opening => current = None /\ call.op \in {"open", "restore"}
  /\ call.at \in {"prepare", "project", "load"} => ~memory.present
  /\ call.at \in {"load", "options", "analysis", "commit"} =>
       backend = "ghidra" /\ call.file \in opened
  /\ call.at \in {"options", "analysis", "commit"} => call.file \in held /\ memory.present
  /\ call.at \in {"release", "shut"} => backend = "ghidra"
  /\ At("shut") => current \notin held
  /\ backend = "ida" => held = {} /\ \A f, g \in opened : f = g

\* What the engine has open or in use besides the database of the session, or of
\* the open that runs, is what an earlier call has failed on: "Closing must
\* release before closing the project" (docs/architecture.md:250).
LocksFollowSession ==
  opened \cup held \subseteq
    failed \cup {current} \cup (IF call.at \in Opening THEN {call.file} ELSE {})

\* A database that claims to be analyzed, in a file, in the engine or in the
\* answer of an open, has been through a full analysis, however it was saved,
\* reopened, restored and partly reanalyzed meanwhile.
AnalyzedMeansAnalyzed ==
  /\ \A f \in Files : disk[f].program.marked => disk[f].program.ran
  /\ memory.marked => memory.ran
  /\ Ready /\ current # None /\ answer.analyzed => memory.ran

SessionInv == TypeOK /\ SessionHoldsItsProgram /\ CallsInOrder

\* A session gives up a database with work that is not in its file only if it
\* was asked to, or says that it failed, or the process was killed.  Neither an
\* open that closes the database before its own, nor a restore, nor the end of
\* the process loses work silently.
NoWorkDroppedSilently ==
  [][current # None /\ current' = None /\ disk'[current].program # memory
       => ~call.save \/ answer'.status \in {"failed", "killed"}]_vars

\* Work that is in a file is replaced by older work only for force_new: an open
\* finds what was saved, and no save writes an older program over a newer one,
\* nor deletes one it then does not replace.  The exception are the programs that
\* Ghidra's loader names otherwise, which no open finds again.
SavedWorkStays ==
  [][\A f \in Files : disk'[f].program.edit < disk[f].program.edit
       => \/ call.force /\ call.file = f
          \/ backend = "ghidra" /\ f \in Renamed]_vars

-----------------------------------------------------------------------------
(* What the documentation says and the code does not keep *)

\* "DefaultProjectData.close() defers dispose while a consumer is registered,
\* which leaves the project .lock file behind" (docs/architecture.md:250): once
\* nothing is open nothing is locked.
NoLockLeftBehind == Ready /\ current = None => Locked = {}

\* "Revert the database to a prior snapshot" (restore_snapshot): the database that
\* was open is still the one that is open.
RestoreRevertsDatabase ==
  [][call.op = "restore" /\ answer'.status = "ok" /\ call' = Idle
       => current' = call.from]_vars
=============================================================================
