----------------------- MODULE DatabaseSessionProofs -----------------------
(* Proofs about DatabaseSession, for any number of files and edits. *)
EXTENDS DatabaseSession, TLAPS

\* What a program says of itself is so, and one that is not there has no edits.
ProgramOK(p) == (p.marked => p.ran) /\ (~p.present => p.edit = 0)
FileOK(d) == ProgramOK(d.program) /\ (d.program.present => d.exists)

\* The files: IDA's always hold a program.
FilesOK ==
  \A f \in Files : /\ FileOK(disk[f]) /\ disk[f].program.edit <= work
                   /\ backend = "ida" /\ disk[f].exists => disk[f].program.present

\* The program that is open, or that the running open has loaded, is that of the
\* file, if the open looks for it under its name.
MayFind(f) == backend = "ida" \/ f \notin Renamed
Theirs(f) == memory.present /\ MayFind(f)
               /\ (f = current \/ (call.at \in Opening /\ f = call.file))

\* It is no older than what the file holds, and a save will replace that and not
\* delete it.
MemoryOK ==
  /\ ProgramOK(memory) /\ memory.edit <= work
  /\ \A f \in Files : Theirs(f) => disk[f].program.edit <= memory.edit
FiledOK ==
  \A f \in Files :
    Theirs(f) /\ call.at \notin {"release", "shut"} /\ backend = "ghidra"
      /\ disk[f].program.present => filed
AnswerOK == Ready /\ current # None /\ answer.analyzed => memory.ran

IInv == SessionInv /\ LocksFollowSession /\ FilesOK /\ MemoryOK /\ FiledOK /\ AnswerOK

USE DEF engine, engineVars

\* The programs that the actions make.
LEMMA ProgramTypes ==
  /\ NoProgram \in Programs /\ Imported \in Programs
  /\ Imported.present /\ Imported.edit = 0 /\ ~Imported.marked
  /\ ~NoProgram.present /\ NoProgram.edit = 0 /\ ~NoProgram.marked
  /\ \A p \in Programs :
       /\ Analyzed(p) \in Programs
       /\ Analyzed(p).present = p.present /\ Analyzed(p).edit = p.edit
       /\ Analyzed(p).ran /\ Analyzed(p).marked
<1> USE SessionAssumption
<1>1. NoProgram \in Programs /\ ~NoProgram.present /\ NoProgram.edit = 0 /\ ~NoProgram.marked
  BY DEF NoProgram, Programs
<1>3. Imported \in Programs
  BY DEF Imported, Programs
<1>4. Imported.present /\ Imported.edit = 0 /\ ~Imported.marked
  BY DEF Imported
<1>5. ASSUME NEW p \in Programs PROVE Analyzed(p) \in Programs
  BY DEF Programs, Analyzed
<1>6. ASSUME NEW p \in Programs
      PROVE  Analyzed(p).present = p.present /\ Analyzed(p).edit = p.edit
  BY DEF Programs, Analyzed
<1>7. ASSUME NEW p \in Programs PROVE Analyzed(p).ran /\ Analyzed(p).marked
  BY DEF Programs, Analyzed
<1> QED BY <1>1, <1>3, <1>4, <1>5, <1>6, <1>7

\* A program after an edit, or with another mark.
LEMMA ProgramEdited ==
  ASSUME NEW p \in Programs, NEW e \in 0 .. MaxWork, NEW m \in BOOLEAN
  PROVE  /\ [p EXCEPT !.edit = e, !.marked = m] \in Programs
         /\ [p EXCEPT !.edit = e] \in Programs
         /\ [p EXCEPT !.marked = m] \in Programs
<1>1. [p EXCEPT !.edit = e, !.marked = m] \in Programs
  BY SessionAssumption DEF Programs
<1>2. [p EXCEPT !.edit = e] \in Programs /\ [p EXCEPT !.marked = m] \in Programs
  BY SessionAssumption DEF Programs
<1> QED BY <1>1, <1>2

\* The programs and files that the actions make are in order.
LEMMA ProgramsOK ==
  /\ ProgramOK(NoProgram) /\ ProgramOK(Imported)
  /\ \A p \in Programs : p.present => ProgramOK(Analyzed(p))
BY ProgramTypes DEF ProgramOK

\* The files that the actions make.
LEMMA DiskTypes ==
  /\ Absent \in DiskFiles /\ FileOK(Absent)
  /\ ~Absent.exists /\ Absent.program.edit = 0
  /\ \A p \in Programs : /\ Holding(p) \in DiskFiles /\ Holding(p).program = p
                         /\ ProgramOK(p) => FileOK(Holding(p))
  /\ \A d \in DiskFiles : d.program \in Programs
<1>1. /\ Absent \in DiskFiles /\ ~Absent.exists /\ ~Absent.program.present
      /\ Absent.program.edit = 0 /\ Absent.program = NoProgram
  BY ProgramTypes DEF Absent, DiskFiles
<1>2. FileOK(Absent)
  BY <1>1, ProgramsOK DEF FileOK
<1>3. ASSUME NEW p \in Programs
      PROVE  Holding(p) \in DiskFiles /\ Holding(p).program = p /\ Holding(p).exists
  BY DEF Holding, DiskFiles
<1>4. ASSUME NEW p \in Programs, ProgramOK(p) PROVE FileOK(Holding(p))
  BY <1>3, <1>4 DEF FileOK
<1>5. \A d \in DiskFiles : d.program \in Programs
  BY DEF DiskFiles
<1> QED BY <1>1, <1>2, <1>3, <1>4, <1>5

\* A file whose program is deleted.
LEMMA DeletedOK ==
  ASSUME NEW d \in DiskFiles, d.program = NoProgram
  PROVE  FileOK(d) /\ d.program.edit = 0
BY ProgramTypes, ProgramsOK DEF FileOK

\* The calls and answers that the actions make.
LEMMA CallTypes ==
  /\ Idle \in Calls /\ Idle.at = "idle" /\ Idle.op = "none" /\ Idle.file = None
  /\ \A c \in Calls : \A at \in Closing \cup Opening :
       [c EXCEPT !.at = at] \in Calls
  /\ \A s \in Endings, a \in BOOLEAN : Answer(s, a) \in Answers
<1>1. Idle \in Calls /\ Idle.at = "idle" /\ Idle.op = "none" /\ Idle.file = None
  BY DEF Idle, Calls, Ops
<1>2. ASSUME NEW c \in Calls, NEW at \in Closing \cup Opening
      PROVE  [c EXCEPT !.at = at] \in Calls
  BY DEF Calls
<1>3. ASSUME NEW s \in Endings, NEW a \in BOOLEAN PROVE Answer(s, a) \in Answers
  BY DEF Answer, Answers
<1> QED BY <1>1, <1>2, <1>3

\* A call that starts.
LEMMA StartTypes ==
  ASSUME NEW op \in Ops, NEW f \in Files \cup {None}, NEW x \in BOOLEAN, NEW y \in BOOLEAN,
         NEW z \in BOOLEAN, TypeOK, Start(op, f, x, y, z)
  PROVE  /\ call' \in Calls
         /\ call'.op = op /\ call'.file = f
         /\ call'.force = x /\ call'.save = z /\ answer' \in Answers
         /\ call'.at = IF current # None THEN "save" ELSE "prepare"
<1>1. answer' \in Answers
  BY CallTypes DEF Start, Endings
<1>2. /\ call'.op = op /\ call'.file = f /\ call'.force = x /\ call'.save = z
      /\ call'.at = IF current # None THEN "save" ELSE "prepare"
  BY DEF Start
<1>3. call' \in Calls
  <2> DEFINE g == IF op = "restore" THEN current ELSE None
             at == IF current # None THEN "save" ELSE "prepare"
  <2>1. g \in Files \cup {None} /\ at \in Closing \cup Opening \cup {"idle"}
    BY DEF TypeOK, Closing, Opening
  <2>2. call' = [op |-> op, from |-> g, file |-> f, force |-> x, analysis |-> y,
                 save |-> z, at |-> at]
    BY DEF Start
  <2> HIDE DEF g, at
  <2> QED BY <2>1, <2>2 DEF Calls
<1> QED BY <1>1, <1>2, <1>3

\* The call goes on.
LEMMA Going ==
  ASSUME TypeOK, NEW step \in Closing \cup Opening, GoTo(step)
  PROVE  /\ call' \in Calls /\ call'.at = step /\ step # "idle"
         /\ call'.op = call.op /\ call'.file = call.file /\ call'.save = call.save
         /\ ~Ready'
         /\ answer' = answer /\ failed' = failed
<1>1. call' \in Calls /\ answer' = answer /\ failed' = failed
  BY CallTypes DEF GoTo, TypeOK
<1>2. call'.at = step /\ call'.op = call.op /\ call'.file = call.file /\ call'.save = call.save
  BY DEF GoTo, TypeOK, Calls
<1>3. step # "idle"
  BY DEF Closing, Opening
<1> QED BY <1>1, <1>2, <1>3, CallTypes DEF Ready

\* The call ends.
LEMMA Ending ==
  ASSUME TypeOK, call' = Idle
  PROVE  call' \in Calls /\ Ready' /\ call'.at = "idle"
BY CallTypes DEF Ready

-----------------------------------------------------------------------------
(* The tools that leave the session as it is *)

\* A tool changes the program or writes it, and its call ends with it.
LEMMA ToolInv ==
  ASSUME IInv, Ready, current # None, UNCHANGED <<backend, current, opened, held>>,
         call' = Idle, answer' \in Answers, answer' = answer \/ ~answer'.analyzed,
         failed' \subseteq Files, failed \subseteq failed',
         work' \in 0 .. MaxWork, work <= work', memory'.edit <= work',
         memory' \in Programs, memory'.present = memory.present, ProgramOK(memory'),
         memory.ran => memory'.ran, memory.edit <= memory'.edit,
         disk' \in [Files -> DiskFiles], filed' \in BOOLEAN, FiledOK',
         \A f \in Files : \/ disk'[f] = disk[f]
                          \/ disk'[f] = Holding(memory) /\ memory' = memory
                          \/ backend = "ghidra" /\ disk'[f].program = NoProgram
  PROVE  IInv'
<1> USE SessionAssumption DEF IInv, SessionInv
<1>0. memory.present
  BY DEF SessionHoldsItsProgram
<1>1. TypeOK'
  BY CallTypes DEF TypeOK
<1>2. SessionHoldsItsProgram'
  BY DEF SessionHoldsItsProgram, Ready
<1>3. CallsInOrder'
  BY CallTypes DEF CallsInOrder, Ready, At, Closing, Opening
<1>4. LocksFollowSession'
  BY CallTypes DEF LocksFollowSession, Ready, Opening
<1>5. FilesOK'
  <2>1. ASSUME NEW f \in Files
        PROVE  /\ FileOK(disk'[f]) /\ disk'[f].program.edit <= work'
               /\ backend' = "ida" /\ disk'[f].exists => disk'[f].program.present
    <3>1. CASE disk'[f] = disk[f]
      <4>1. /\ FileOK(disk[f]) /\ disk[f].program.edit <= work
            /\ backend = "ida" /\ disk[f].exists => disk[f].program.present
        BY DEF FilesOK
      <4>2. disk[f].program.edit \in 0 .. MaxWork /\ work \in 0 .. MaxWork
        BY DEF TypeOK, DiskFiles, Programs
      <4> QED BY <4>1, <4>2, <3>1
    <3>2. CASE disk'[f] = Holding(memory) /\ memory' = memory
      BY <1>0, <3>2, DiskTypes DEF TypeOK, MemoryOK
    <3>3. CASE backend = "ghidra" /\ disk'[f].program = NoProgram
      <4>1. disk'[f] \in DiskFiles /\ 0 <= work'
        OBVIOUS
      <4> QED BY <3>3, <4>1, DeletedOK
    <3> QED BY <3>1, <3>2, <3>3
  <2> QED BY <2>1 DEF FilesOK
<1>6. MemoryOK'
  <2>0. \A f \in Files : Theirs(f)' => Theirs(f)
    BY DEF Theirs, MayFind, Opening, Ready
  <2>1. ASSUME NEW f \in Files, Theirs(f)
        PROVE  disk'[f].program.edit <= memory'.edit
    <3>0. /\ disk[f].program.edit \in 0 .. MaxWork
          /\ memory.edit \in 0 .. MaxWork /\ memory'.edit \in 0 .. MaxWork
      BY DEF TypeOK, DiskFiles, Programs
    <3>1. CASE disk'[f] = disk[f]
      <4>1. disk[f].program.edit <= memory.edit
        BY <2>1 DEF MemoryOK
      <4> QED BY <3>0, <4>1, <3>1
    <3>2. CASE disk'[f] = Holding(memory) /\ memory' = memory
      BY <3>0, <3>2, DiskTypes DEF TypeOK
    <3>3. CASE disk'[f].program = NoProgram
      BY <3>0, <3>3, ProgramTypes
    <3> QED BY <3>1, <3>2, <3>3
  <2> QED BY <2>0, <2>1 DEF MemoryOK
<1>7. AnswerOK'
  BY DEF AnswerOK, Ready
<1> QED BY <1>1, <1>2, <1>3, <1>4, <1>5, <1>6, <1>7

\* What a call that ends there leaves.
LEMMA Ended ==
  ASSUME TypeOK, NEW f \in Files, Succeeds(FALSE) \/ Fails(f)
  PROVE  /\ call' = Idle /\ answer' \in Answers /\ ~answer'.analyzed
         /\ failed' \subseteq Files /\ failed \subseteq failed'
<1>1. CASE Succeeds(FALSE)
  <2>1. answer' = Answer("ok", FALSE) /\ call' = Idle /\ failed' = failed
    BY <1>1 DEF Succeeds
  <2>2. Answer("ok", FALSE) \in Answers /\ ~Answer("ok", FALSE).analyzed
    BY DEF Answer, Answers, Endings
  <2> QED BY <2>1, <2>2 DEF TypeOK
<1>2. CASE Fails(f)
  <2>1. answer' = Answer("failed", FALSE) /\ call' = Idle /\ failed' = failed \cup {f}
    BY <1>2 DEF Fails
  <2>2. Answer("failed", FALSE) \in Answers /\ ~Answer("failed", FALSE).analyzed
    BY DEF Answer, Answers, Endings
  <2> QED BY <2>1, <2>2 DEF TypeOK
<1> QED BY <1>1, <1>2

\* An edit keeps the invariant.
LEMMA EditInv == ASSUME IInv, Edit PROVE IInv'
<1> USE SessionAssumption DEF IInv, SessionInv, callVars
<1>1. /\ work \in 0 .. MaxWork /\ work' \in 0 .. MaxWork /\ work <= work'
      /\ memory.edit \in 0 .. MaxWork /\ memory.edit <= work /\ memory.edit <= work'
  BY DEF Edit, TypeOK, Programs, MemoryOK
<1>2. PICK m \in BOOLEAN : /\ memory' = [memory EXCEPT !.edit = work', !.marked = m]
                           /\ m => memory.marked
  BY DEF Edit, TypeOK, Programs
<1>3. memory \in Programs /\ memory.present
  BY DEF TypeOK, SessionHoldsItsProgram, Edit
<1>4. memory' \in Programs
  BY <1>1, <1>2, <1>3, ProgramEdited
<1>5. /\ memory'.edit = work' /\ memory'.present = memory.present
      /\ memory'.ran = memory.ran /\ memory'.marked = m
  BY <1>2, <1>3 DEF Programs
<1>6. ProgramOK(memory')
  BY <1>2, <1>3, <1>5 DEF ProgramOK, MemoryOK
<1>7. UNCHANGED <<call, answer, failed, disk, backend, current, filed, opened, held>>
  BY DEF Edit
<1>8. /\ answer' \in Answers /\ failed' \subseteq Files /\ disk' \in [Files -> DiskFiles]
      /\ filed' \in BOOLEAN /\ FiledOK'
  BY <1>3, <1>5, <1>7 DEF TypeOK, FiledOK, Theirs, MayFind
<1>9. Ready /\ current # None /\ call' = Idle
  BY <1>7 DEF Edit, Ready
<1> QED BY <1>1, <1>3, <1>4, <1>5, <1>6, <1>7, <1>8, <1>9, ToolInv

\* So does a full analysis.
LEMMA AnalyzeDatabaseInv == ASSUME IInv, AnalyzeDatabase PROVE IInv'
<1> USE SessionAssumption DEF IInv, SessionInv
<1>1. /\ memory \in Programs /\ memory.present /\ ProgramOK(memory)
      /\ memory.edit \in 0 .. MaxWork /\ work \in 0 .. MaxWork /\ memory.edit <= work
  BY DEF TypeOK, SessionHoldsItsProgram, AnalyzeDatabase, MemoryOK, Programs
<1>2. /\ memory' \in Programs /\ memory'.present = memory.present
      /\ memory'.edit = memory.edit /\ ProgramOK(memory')
      /\ memory.ran => memory'.ran
  <2>1. CASE memory' = Analyzed(memory)
    BY <1>1, <2>1, ProgramTypes, ProgramsOK
  <2>2. CASE memory' = [memory EXCEPT !.marked = FALSE]
    <3>1. memory' \in Programs
      BY <1>1, <2>2, ProgramEdited
    <3>2. /\ memory'.present = memory.present /\ memory'.edit = memory.edit
          /\ memory'.ran = memory.ran /\ ~memory'.marked
      BY <1>1, <2>2 DEF Programs
    <3> QED BY <1>1, <3>1, <3>2 DEF ProgramOK
  <2>3. CASE memory' = memory
    BY <1>1, <2>3
  <2> QED BY <2>1, <2>2, <2>3 DEF AnalyzeDatabase
<1>3. /\ call' = Idle /\ answer' \in Answers /\ ~answer'.analyzed
      /\ failed' \subseteq Files /\ failed \subseteq failed'
  <2>1. current \in Files
    BY DEF AnalyzeDatabase, TypeOK
  <2> QED BY <2>1, Ended DEF AnalyzeDatabase
<1>4. Ready /\ current # None /\ UNCHANGED <<backend, disk, current, filed, opened, held, work>>
  BY DEF AnalyzeDatabase
<1>5. disk' \in [Files -> DiskFiles] /\ filed' \in BOOLEAN /\ FiledOK'
  BY <1>1, <1>2, <1>3, <1>4 DEF TypeOK, FiledOK, Theirs, MayFind, Ready
<1> QED BY <1>1, <1>2, <1>3, <1>4, <1>5, ToolInv

\* So does a partial one.
LEMMA ReanalyzeRangeInv == ASSUME IInv, ReanalyzeRange PROVE IInv'
<1> USE SessionAssumption DEF IInv, SessionInv, callVars
<1>1. /\ work \in 0 .. MaxWork /\ work' \in 0 .. MaxWork /\ work <= work'
      /\ memory.edit \in 0 .. MaxWork /\ memory.edit <= work /\ memory.edit <= work'
  BY DEF ReanalyzeRange, TypeOK, Programs, MemoryOK
<1>2. memory' = [memory EXCEPT !.edit = work']
  BY DEF ReanalyzeRange, ReanalyzedRange
<1>3. memory \in Programs /\ memory.present
  BY DEF TypeOK, SessionHoldsItsProgram, ReanalyzeRange
<1>4. memory' \in Programs
  BY <1>1, <1>2, <1>3, ProgramEdited
<1>5. /\ memory'.edit = work' /\ memory'.present = memory.present
      /\ memory'.ran = memory.ran /\ memory'.marked = memory.marked
  BY <1>2, <1>3 DEF Programs
<1>6. ProgramOK(memory')
  BY <1>3, <1>5 DEF ProgramOK, MemoryOK
<1>7. UNCHANGED <<call, answer, failed, disk, backend, current, filed, opened, held>>
  BY DEF ReanalyzeRange
<1>8. /\ answer' \in Answers /\ failed' \subseteq Files /\ disk' \in [Files -> DiskFiles]
      /\ filed' \in BOOLEAN /\ FiledOK'
  BY <1>3, <1>5, <1>7 DEF TypeOK, FiledOK, Theirs, MayFind
<1>9. Ready /\ current # None /\ call' = Idle
  BY <1>7 DEF ReanalyzeRange, Ready
<1> QED BY <1>1, <1>3, <1>4, <1>5, <1>6, <1>7, <1>8, <1>9, ToolInv

\* What a save, whole or not, leaves of the files.
LEMMA SavingOK ==
  ASSUME TypeOK, current \in Files, disk' \in {SavedIn(current)} \cup NotSaved(current)
  PROVE  /\ disk' \in [Files -> DiskFiles]
         /\ \A f \in Files \ {current} : disk'[f] = disk[f]
         /\ \/ disk'[current] = disk[current]
            \/ disk'[current] = Holding(memory)
            \/ Stale(current) /\ disk'[current].program = NoProgram
<1>1. CASE disk' = disk
  BY <1>1 DEF TypeOK
<1>2. CASE disk' = SavedIn(current)
  BY <1>2, DiskTypes DEF TypeOK, SavedIn
<1>3. CASE Stale(current) /\ disk' = [disk EXCEPT ![current].program = NoProgram]
  <2>1. [disk[current] EXCEPT !.program = NoProgram] \in DiskFiles
    BY ProgramTypes DEF TypeOK, DiskFiles
  <2>2. disk' = [disk EXCEPT ![current] = [disk[current] EXCEPT !.program = NoProgram]]
    BY <1>3
  <2>3. disk'[current] = [disk[current] EXCEPT !.program = NoProgram]
    BY <2>2 DEF TypeOK
  <2>4. disk'[current].program = NoProgram
    BY <2>3 DEF TypeOK, DiskFiles
  <2> QED BY <1>3, <2>1, <2>2, <2>4 DEF TypeOK
<1> QED BY <1>1, <1>2, <1>3 DEF NotSaved

\* save_database.
LEMMA SaveDatabaseInv == ASSUME IInv, SaveDatabase PROVE IInv'
<1> USE SessionAssumption DEF IInv, SessionInv
<1>1. /\ memory \in Programs /\ memory.present /\ ProgramOK(memory)
      /\ memory.edit \in 0 .. MaxWork /\ work \in 0 .. MaxWork /\ memory.edit <= work
      /\ current \in Files /\ current # None /\ Ready
  BY DEF TypeOK, SessionHoldsItsProgram, MemoryOK, Programs, SaveDatabase
<1>2. /\ call' = Idle /\ answer' \in Answers /\ ~answer'.analyzed
      /\ failed' \subseteq Files /\ failed \subseteq failed'
  BY <1>1, Ended DEF SaveDatabase
<1>3. /\ disk' \in [Files -> DiskFiles]
      /\ \A f \in Files \ {current} : disk'[f] = disk[f]
      /\ \/ disk'[current] = disk[current]
         \/ disk'[current] = Holding(memory)
         \/ Stale(current) /\ disk'[current].program = NoProgram
  BY <1>1, SavingOK DEF SaveDatabase
<1>4. UNCHANGED <<backend, current, memory, opened, held, work>>
  BY DEF SaveDatabase
<1>5. filed' \in BOOLEAN /\ FiledOK'
  <2>1. CASE filed' = TRUE
    BY <2>1 DEF FiledOK
  <2>2. CASE disk' \in NotSaved(current) /\ filed' = filed
    <3>1. filed' \in BOOLEAN
      BY <2>2 DEF TypeOK
    <3>2. \A f \in Files : disk'[f].program.present => disk[f].program.present
      <4>1. CASE disk' = disk
        BY <4>1
      <4>2. CASE Stale(current)
        <5>1. disk[current].program.present
          BY <4>2 DEF Stale
        <5> QED BY <1>3, <5>1
      <4> QED BY <1>1, <1>3, <2>2, <4>1, <4>2 DEF NotSaved
    <3>3. \A f \in Files : Theirs(f)' => Theirs(f) /\ call.at \notin {"release", "shut"}
      BY <1>1, <1>2, <1>4, CallTypes DEF Theirs, MayFind, Ready, Opening
    <3> QED BY <1>4, <2>2, <3>1, <3>2, <3>3 DEF FiledOK
  <2> QED BY <2>1, <2>2 DEF SaveDatabase
<1>6. \A f \in Files : \/ disk'[f] = disk[f]
                       \/ disk'[f] = Holding(memory) /\ memory' = memory
                       \/ backend = "ghidra" /\ disk'[f].program = NoProgram
  BY <1>3, <1>4 DEF Stale
<1>7. /\ work' \in 0 .. MaxWork /\ work <= work' /\ memory'.edit <= work'
      /\ memory' \in Programs /\ memory'.present = memory.present /\ ProgramOK(memory')
      /\ memory.ran => memory'.ran
      /\ memory.edit <= memory'.edit
  <2>1. work' = work /\ memory' = memory
    BY <1>4
  <2>2. work <= work /\ memory.edit <= memory.edit
    BY <1>1
  <2> QED BY <1>1, <2>1, <2>2
<1> HIDE DEF IInv, SessionInv
<1> QED BY <1>1, <1>2, <1>3, <1>4, <1>5, <1>6, <1>7, ToolInv

\* take_snapshot.
LEMMA TakeSnapshotInv ==
  ASSUME IInv, NEW s \in Snapshots, TakeSnapshot(s) PROVE IInv'
<1> USE SessionAssumption DEF IInv, SessionInv
<1>1. /\ memory \in Programs /\ memory.present /\ ProgramOK(memory)
      /\ memory.edit \in 0 .. MaxWork /\ work \in 0 .. MaxWork /\ memory.edit <= work
      /\ current \in Files /\ current # None /\ Ready /\ backend = "ida"
  BY DEF TypeOK, SessionHoldsItsProgram, MemoryOK, Programs, TakeSnapshot
<1>2. /\ call' = Idle /\ answer' \in Answers /\ ~answer'.analyzed
      /\ failed' \subseteq Files /\ failed \subseteq failed'
  BY <1>1, Ended DEF TakeSnapshot
<1>3. UNCHANGED <<backend, current, memory, filed, opened, held, work>>
  BY DEF TakeSnapshot
<1>4. /\ disk' \in [Files -> DiskFiles]
      /\ \A f \in Files : disk'[f] = disk[f] \/ disk'[f] = Holding(memory)
  BY <1>1, DiskTypes DEF TypeOK, TakeSnapshot, Files
<1>5. filed' \in BOOLEAN /\ FiledOK'
  <2>1. filed' \in BOOLEAN /\ backend' # "ghidra"
    BY <1>1, <1>3 DEF TypeOK
  <2> QED BY <2>1 DEF FiledOK
<1>6. /\ work' \in 0 .. MaxWork /\ work <= work' /\ memory'.edit <= work'
      /\ memory' \in Programs /\ memory'.present = memory.present /\ ProgramOK(memory')
      /\ memory.ran => memory'.ran
      /\ memory.edit <= memory'.edit
  <2>1. work' = work /\ memory' = memory
    BY <1>3
  <2>2. work <= work /\ memory.edit <= memory.edit
    BY <1>1
  <2> QED BY <1>1, <2>1, <2>2
<1> HIDE DEF IInv, SessionInv
<1> QED BY <1>1, <1>2, <1>3, <1>4, <1>5, <1>6, ToolInv

-----------------------------------------------------------------------------
(* The calls that open and close *)

\* A call that opens or closes begins.
LEMMA StartInv ==
  ASSUME IInv, Ready, NEW op \in Ops \ {"none"}, NEW f \in Files \cup {None},
         NEW x \in BOOLEAN, NEW y \in BOOLEAN, NEW z \in BOOLEAN, Start(op, f, x, y, z),
         op \in {"open", "restore"} <=> f # None,
         current = None => op = "open",
         UNCHANGED <<backend, disk, current, engineVars, failed, work>>
  PROVE  IInv'
<1> USE SessionAssumption DEF IInv, SessionInv
<1>1. /\ call' \in Calls /\ call'.op = op /\ call'.file = f /\ answer' \in Answers
      /\ call'.at = IF current # None THEN "save" ELSE "prepare"
  BY StartTypes DEF Ops
<1>2. ~Ready'
  BY <1>1, CallTypes DEF Ready
<1>3. TypeOK'
  BY <1>1 DEF TypeOK
<1>4. SessionHoldsItsProgram' /\ AnswerOK'
  BY <1>2 DEF SessionHoldsItsProgram, AnswerOK
<1>5. CallsInOrder'
  BY <1>1, <1>2 DEF CallsInOrder, SessionHoldsItsProgram, At, Closing, Opening
<1>6. LocksFollowSession'
  BY <1>1 DEF LocksFollowSession, CallsInOrder, Ready, Idle, Opening
<1>7. FilesOK'
  BY DEF FilesOK
<1>8. \A g \in Files : Theirs(g)' => Theirs(g) /\ call.at \notin {"release", "shut"}
  BY <1>1, CallTypes DEF Theirs, MayFind, Opening, CallsInOrder, Ready
<1>9. MemoryOK' /\ FiledOK'
  BY <1>8 DEF MemoryOK, FiledOK
<1> QED BY <1>3, <1>4, <1>5, <1>6, <1>7, <1>9

\* open_database.
LEMMA OpenDatabaseInv ==
  ASSUME IInv, NEW f \in Databases, OpenDatabase(f) PROVE IInv'
<1>1. f \in Files /\ f # None /\ "open" \in Ops \ {"none"}
  BY SessionAssumption DEF Files, Ops
<1>2. PICK x \in BOOLEAN, y \in BOOLEAN : Start("open", f, x, y, TRUE)
  BY DEF OpenDatabase
<1> QED BY <1>1, <1>2, StartInv DEF OpenDatabase

\* restore_snapshot.
LEMMA RestoreSnapshotInv ==
  ASSUME IInv, NEW s \in Snapshots, RestoreSnapshot(s) PROVE IInv'
<1>1. s \in Files /\ s # None /\ "restore" \in Ops \ {"none"}
  BY SessionAssumption DEF Files, Ops
<1> QED BY <1>1, StartInv DEF RestoreSnapshot

\* close_database.
LEMMA CloseDatabaseInv == ASSUME IInv, CloseDatabase PROVE IInv'
<1>1. "close" \in Ops \ {"none"}
  BY DEF Ops
<1>2. PICK z \in BOOLEAN : Start("close", None, FALSE, FALSE, z)
  BY DEF CloseDatabase
<1> QED BY <1>1, <1>2, StartInv DEF CloseDatabase

\* main's finally.
LEMMA ExitInv == ASSUME IInv, Exit PROVE IInv'
<1>1. "exit" \in Ops \ {"none"}
  BY DEF Ops
<1> QED BY <1>1, StartInv DEF Exit

-----------------------------------------------------------------------------
(* The steps of a close *)

\* The session forgets its program: the call is over, or an open goes on.
LEMMA ForgetInv ==
  ASSUME IInv, Forget, UNCHANGED <<backend, work>>,
         disk' \in [Files -> DiskFiles], FilesOK',
         answer' \in Answers, failed' \subseteq Files, opened' \cup held' \subseteq failed',
         backend = "ida" => held' = {} /\ \A f, g \in opened' : f = g,
         \/ call' = Idle
         \/ /\ call' \in Calls /\ ~Ready' /\ call'.at = "prepare"
            /\ call'.op \in {"open", "restore"} /\ call'.file # None
  PROVE  IInv'
<1> USE SessionAssumption DEF IInv, SessionInv
<1>1. current' = None /\ memory' = NoProgram /\ filed' = FALSE
  BY DEF Forget
<1>2. call' \in Calls /\ (call' = Idle => Ready' /\ call'.at = "idle")
  BY CallTypes DEF Ready
<1>3. TypeOK'
  BY <1>1, <1>2, ProgramTypes DEF TypeOK
<1>4. SessionHoldsItsProgram' /\ AnswerOK'
  BY <1>1 DEF SessionHoldsItsProgram, AnswerOK
<1>5. CallsInOrder'
  <2>1. CASE call' = Idle
    BY <1>1, <1>2, <2>1, ProgramTypes, CallTypes DEF CallsInOrder, At, Closing, Opening
  <2>2. CASE call' # Idle
    BY <1>1, <2>2, ProgramTypes DEF CallsInOrder, At, Closing, Opening
  <2> QED BY <2>1, <2>2
<1>6. LocksFollowSession'
  BY DEF LocksFollowSession
<1>7. MemoryOK' /\ FiledOK'
  <2>1. 0 <= work
    BY DEF TypeOK
  <2>2. \A f \in Files : ~Theirs(f)'
    BY <1>1, ProgramTypes DEF Theirs
  <2> QED BY <1>1, <2>1, <2>2, ProgramTypes, ProgramsOK DEF MemoryOK, FiledOK
<1> QED BY <1>3, <1>4, <1>5, <1>6, <1>7

\* What the save of a close, whole or not, leaves of the files.
LEMMA WrittenOK ==
  ASSUME IInv, \/ call.at \in Closing /\ disk' = Written
               \/ disk' \in WrittenOrNot,
         UNCHANGED <<backend, work>>
  PROVE  /\ disk' \in [Files -> DiskFiles] /\ FilesOK'
         /\ \A f \in Files : \/ disk'[f] = disk[f]
                             \/ disk'[f] = Holding(memory)
                             \/ f = current /\ Stale(f) /\ disk'[f].program = NoProgram
<1> USE SessionAssumption DEF IInv, SessionInv
<1>1. CASE disk' = disk
  BY <1>1 DEF TypeOK, FilesOK
<1>2. CASE disk' # disk
  <2>1. call.at \in Closing /\ disk' \in {SavedIn(current)} \cup NotSaved(current)
    BY <1>2 DEF Written, WrittenOrNot, At, Closing
  <2>2. /\ current \in Files /\ memory \in Programs /\ memory.present
        /\ ProgramOK(memory) /\ memory.edit <= work /\ 0 <= work
    BY <2>1 DEF CallsInOrder, TypeOK, MemoryOK
  <2>3. /\ disk' \in [Files -> DiskFiles]
        /\ \A f \in Files \ {current} : disk'[f] = disk[f]
        /\ \/ disk'[current] = disk[current]
           \/ disk'[current] = Holding(memory)
           \/ Stale(current) /\ disk'[current].program = NoProgram
    BY <2>1, <2>2, SavingOK
  <2>4. ASSUME NEW f \in Files
        PROVE  /\ FileOK(disk'[f]) /\ disk'[f].program.edit <= work
               /\ backend = "ida" /\ disk'[f].exists => disk'[f].program.present
    <3>1. CASE disk'[f] = disk[f]
      BY <3>1 DEF FilesOK
    <3>2. CASE disk'[f] = Holding(memory)
      BY <2>2, <3>2, DiskTypes
    <3>3. CASE Stale(current) /\ disk'[f].program = NoProgram
      <4>1. disk'[f] \in DiskFiles
        BY <2>3
      <4> QED BY <2>2, <3>3, <4>1, DeletedOK DEF Stale
    <3> QED BY <2>3, <3>1, <3>2, <3>3
  <2> QED BY <2>3, <2>4 DEF FilesOK
<1> QED BY <1>1, <1>2

\* The save of a close.
LEMMA SaveInv == ASSUME IInv, Save PROVE IInv'
<1> USE SessionAssumption DEF IInv, SessionInv
<1>1. call.at = "save" /\ call.at \in Closing /\ "release" \in Closing
  BY DEF Save, At, Closing
<1>2. /\ call' \in Calls /\ call'.at = "release" /\ ~Ready' /\ call'.op = call.op
      /\ call'.file = call.file /\ answer' = answer /\ failed' = failed
  BY <1>1, Going DEF Save
<1>3. /\ disk' \in [Files -> DiskFiles] /\ FilesOK'
      /\ \A f \in Files : disk'[f] = disk[f] \/ disk'[f] = Holding(memory)
  <2>1. disk' = Written /\ UNCHANGED <<backend, work>>
    BY DEF Save
  <2>2. current \in Files
    BY <1>1 DEF CallsInOrder, TypeOK
  <2>3. disk' = disk \/ disk' = [disk EXCEPT ![current] = Holding(memory)]
    BY <2>1 DEF Written, SavedIn
  <2> QED BY <1>1, <2>1, <2>2, <2>3, WrittenOK DEF TypeOK
<1>4. UNCHANGED <<backend, current, memory, filed, opened, held, work>>
  BY DEF Save
<1>5. TypeOK'
  BY <1>2, <1>3, <1>4 DEF TypeOK
<1>6. SessionHoldsItsProgram' /\ AnswerOK'
  BY <1>2 DEF SessionHoldsItsProgram, AnswerOK
<1>7. CallsInOrder'
  BY <1>1, <1>2, <1>4 DEF CallsInOrder, Save, At, Closing, Opening
<1>8. LocksFollowSession'
  BY <1>1, <1>2, <1>4 DEF LocksFollowSession, Opening
<1>9. MemoryOK' /\ FiledOK'
  <2>1. \A f \in Files : Theirs(f)' => Theirs(f)
    BY <1>2, <1>4 DEF Theirs, MayFind, Opening
  <2>2. FiledOK'
    BY <1>2 DEF FiledOK
  <2>3. ASSUME NEW f \in Files, Theirs(f) PROVE disk'[f].program.edit <= memory.edit
    <3>1. disk[f].program.edit <= memory.edit
      BY <2>3 DEF MemoryOK
    <3>2. memory.edit \in 0 .. MaxWork /\ memory \in Programs
      BY DEF TypeOK, Programs
    <3> QED BY <1>3, <3>1, <3>2, DiskTypes
  <2> QED BY <1>4, <2>1, <2>2, <2>3 DEF MemoryOK
<1> QED BY <1>3, <1>5, <1>6, <1>7, <1>8, <1>9

\* The program is released.
LEMMA ReleaseInv == ASSUME IInv, Release PROVE IInv'
<1> USE SessionAssumption DEF IInv, SessionInv
<1>1. call.at = "release" /\ call.at \in Closing /\ "shut" \in Closing
  BY DEF Release, At, Closing
<1>2. /\ call' \in Calls /\ call'.at = "shut" /\ ~Ready' /\ call'.op = call.op
      /\ call'.file = call.file /\ answer' = answer /\ failed' = failed
  BY <1>1, Going DEF Release
<1>3. /\ UNCHANGED <<backend, disk, current, memory, filed, opened, work>>
      /\ held' = held \ {current}
  BY DEF Release, Released
<1>4. TypeOK'
  BY <1>2, <1>3 DEF TypeOK
<1>5. SessionHoldsItsProgram' /\ AnswerOK'
  BY <1>2 DEF SessionHoldsItsProgram, AnswerOK
<1>6. CallsInOrder'
  BY <1>1, <1>2, <1>3 DEF CallsInOrder, Release, At, Closing, Opening
<1>7. LocksFollowSession' /\ FilesOK'
  BY <1>1, <1>2, <1>3 DEF LocksFollowSession, FilesOK, Opening
<1>8. MemoryOK' /\ FiledOK'
  <2>1. \A f \in Files : Theirs(f)' => Theirs(f)
    BY <1>2, <1>3 DEF Theirs, MayFind, Opening
  <2> QED BY <1>2, <1>3, <2>1 DEF MemoryOK, FiledOK
<1> QED BY <1>4, <1>5, <1>6, <1>7, <1>8

\* What follows a close.
LEMMA ClosedCall ==
  ASSUME IInv, call.at \in Closing, Closed
  PROVE  /\ answer' \in Answers /\ failed' \subseteq Files
         /\ IF call.op = "exit" THEN failed' = {} ELSE failed' = failed
         /\ \/ call' = Idle
            \/ /\ call' \in Calls /\ ~Ready' /\ call'.at = "prepare"
               /\ call'.op \in {"open", "restore"} /\ call'.file # None
<1> USE DEF IInv, SessionInv
<1>1. CASE call.op = "close"
  BY <1>1, CallTypes DEF Closed, Succeeds, TypeOK, Endings
<1>2. CASE call.op = "exit"
  BY <1>2, CallTypes DEF Closed, Endings
<1>3. CASE call.op \notin {"close", "exit"}
  <2>1. call.op \in {"open", "restore"} /\ call.file # None
    <3>1. call.op # "none"
      BY DEF CallsInOrder, At, Closing
    <3> QED BY <1>3, <3>1 DEF CallsInOrder, TypeOK, Calls, Ops
  <2>2. GoTo("prepare") /\ "prepare" \in Closing \cup Opening
    BY <1>3 DEF Closed, Opening
  <2> QED BY <1>3, <2>1, <2>2, Going DEF TypeOK
<1> QED BY <1>1, <1>2, <1>3

\* The project is closed.
LEMMA ShutInv == ASSUME IInv, Shut PROVE IInv'
<1> USE DEF IInv, SessionInv
<1>1. call.at \in Closing /\ call.at \notin Opening /\ backend = "ghidra" /\ current \notin held
  BY DEF Shut, At, Closing, Opening, CallsInOrder
<1>2. /\ answer' \in Answers /\ failed' \subseteq Files
      /\ IF call.op = "exit" THEN failed' = {} ELSE failed' = failed
      /\ \/ call' = Idle
         \/ /\ call' \in Calls /\ ~Ready' /\ call'.at = "prepare"
            /\ call'.op \in {"open", "restore"} /\ call'.file # None
  BY <1>1, ClosedCall DEF Shut
<1>3. opened' \cup held' \subseteq failed'
  BY <1>1, <1>2 DEF Shut, LeftOpen, LocksFollowSession
<1>4. disk' \in [Files -> DiskFiles] /\ FilesOK'
  BY DEF Shut, TypeOK, FilesOK
<1> QED BY <1>1, <1>2, <1>3, <1>4, ForgetInv DEF Shut

\* The whole close, in IDA.
LEMMA IdaClosesInv == ASSUME IInv, IdaCloses PROVE IInv'
<1> USE DEF IInv, SessionInv
<1>1. /\ call.at \in Closing /\ call.at \notin Opening /\ backend = "ida" /\ held' = {}
      /\ current \in opened /\ \A f, g \in opened : f = g
  BY DEF IdaCloses, At, Closing, Opening, CallsInOrder
<1>2. /\ answer' \in Answers /\ failed' \subseteq Files
      /\ \/ call' = Idle
         \/ /\ call' \in Calls /\ ~Ready' /\ call'.at = "prepare"
            /\ call'.op \in {"open", "restore"} /\ call'.file # None
  BY <1>1, ClosedCall DEF IdaCloses
<1>3. opened' = {}
  BY <1>1 DEF IdaCloses, LeftOpen
<1>4. disk' \in [Files -> DiskFiles] /\ FilesOK'
  BY <1>1, WrittenOK DEF IdaCloses
<1> QED BY <1>1, <1>2, <1>3, <1>4, ForgetInv DEF IdaCloses

\* A close is cut short.
LEMMA CloseFailsInv == ASSUME IInv, CloseFails PROVE IInv'
<1> USE DEF IInv, SessionInv
<1>1. call.at \in Closing /\ call.at \notin Opening /\ current \in Files
  BY DEF CloseFails, CallsInOrder, TypeOK, Closing, Opening
<1>2. answer' \in Answers /\ failed' \subseteq Files /\ call' = Idle
  BY <1>1, Ended, CallTypes DEF CloseFails, TypeOK, Endings
<1>3. opened' \subseteq opened /\ held' \subseteq held
  BY DEF CloseFails, EngineAsFarAs
<1>4. \/ opened' = {} /\ held' = {}
      \/ failed' = failed \cup {current}
  BY DEF CloseFails, Fails
<1>5. opened' \cup held' \subseteq failed'
  BY <1>1, <1>3, <1>4 DEF LocksFollowSession
<1>6. backend = "ida" => held' = {} /\ \A f, g \in opened' : f = g
  BY <1>3 DEF CallsInOrder
<1>7. disk' \in [Files -> DiskFiles] /\ FilesOK'
  BY WrittenOK DEF CloseFails
<1> QED BY <1>2, <1>5, <1>6, <1>7, ForgetInv DEF CloseFails

\* An open is cut short.
LEMMA OpenFailsInv == ASSUME IInv, OpenFails PROVE IInv'
<1> USE DEF IInv, SessionInv
<1>1. call.at \in Opening /\ call.file \in Files /\ current = None
  BY DEF OpenFails, CallsInOrder, TypeOK, Calls
<1>2. answer' \in Answers /\ failed' \subseteq Files /\ call' = Idle
  BY <1>1, Ended DEF OpenFails, TypeOK, Fails
<1>3. opened' \subseteq opened /\ held' = held /\ failed' = failed \cup {call.file}
  BY DEF OpenFails, Fails
<1>4. opened' \cup held' \subseteq failed'
  BY <1>1, <1>3, SessionAssumption DEF LocksFollowSession, TypeOK
<1>5. backend = "ida" => held' = {} /\ \A f, g \in opened' : f = g
  BY <1>3 DEF CallsInOrder
<1>6. disk' \in [Files -> DiskFiles] /\ FilesOK'
  BY DEF OpenFails, TypeOK, FilesOK
<1> QED BY <1>2, <1>4, <1>5, <1>6, ForgetInv DEF OpenFails

\* The process is gone.
LEMMA KilledInv == ASSUME IInv, Killed PROVE IInv'
<1> USE DEF IInv, SessionInv
<1>1. answer' \in Answers /\ failed' = {} /\ call' = Idle /\ opened' = {} /\ held' = {}
  BY CallTypes DEF Killed, Endings
<1>2. disk' \in [Files -> DiskFiles] /\ FilesOK'
  BY WrittenOK DEF Killed
<1> QED BY <1>1, <1>2, ForgetInv DEF Killed

-----------------------------------------------------------------------------
(* The steps of an open *)

\* force_new.
LEMMA PrepareInv == ASSUME IInv, Prepare PROVE IInv'
<1> USE SessionAssumption DEF IInv, SessionInv, engineVars
<1>1. /\ call.at = "prepare" /\ "project" \in Opening /\ call.at \in Opening
      /\ call.file \in Files
  BY DEF Prepare, At, Opening, CallsInOrder, TypeOK, Calls
<1>2. /\ call' \in Calls /\ call'.at = "project" /\ ~Ready' /\ call'.op = call.op
      /\ call'.file = call.file /\ answer' = answer /\ failed' = failed
  BY <1>1, Going DEF Prepare
<1>3. UNCHANGED <<backend, current, memory, filed, opened, held, work>>
  BY DEF Prepare
<1>4. /\ disk' \in [Files -> DiskFiles]
      /\ \A f \in Files : disk'[f] = disk[f] \/ disk'[f] = Absent
  BY <1>1, DiskTypes DEF Prepare, TypeOK
<1>5. FilesOK'
  <2>1. 0 <= work
    BY DEF TypeOK
  <2> QED BY <1>3, <1>4, <2>1, DiskTypes DEF FilesOK
<1>6. TypeOK'
  BY <1>2, <1>3, <1>4 DEF TypeOK
<1>7. SessionHoldsItsProgram' /\ AnswerOK'
  BY <1>2 DEF SessionHoldsItsProgram, AnswerOK
<1>8. current = None /\ ~memory.present
  BY <1>1 DEF CallsInOrder
<1>9. CallsInOrder'
  BY <1>1, <1>2, <1>3, <1>8 DEF CallsInOrder, At, Closing, Opening
<1>10. LocksFollowSession' /\ MemoryOK' /\ FiledOK'
  BY <1>1, <1>2, <1>3, <1>8 DEF LocksFollowSession, MemoryOK, FiledOK, Theirs, Opening
<1> QED BY <1>5, <1>6, <1>7, <1>9, <1>10

\* The project is opened.
LEMMA ProjectInv == ASSUME IInv, Project PROVE IInv'
<1> USE SessionAssumption DEF IInv, SessionInv
<1>1. /\ call.at = "project" /\ "load" \in Opening /\ call.at \in Opening
      /\ call.file \in Files /\ ~memory.present
      /\ backend = "ghidra" /\ current = None
  BY DEF Project, At, Opening, CallsInOrder, TypeOK, Calls
<1>2. /\ call' \in Calls /\ call'.at = "load" /\ ~Ready' /\ call'.op = call.op
      /\ call'.file = call.file /\ answer' = answer /\ failed' = failed
  BY <1>1, Going DEF Project
<1>3. /\ UNCHANGED <<backend, current, memory, filed, held, work>>
      /\ opened' = opened \cup {call.file}
  BY DEF Project
<1>4. disk' = [disk EXCEPT ![call.file].exists = TRUE]
  BY DEF Project
<1>5. /\ disk' \in [Files -> DiskFiles]
      /\ \A f \in Files : /\ disk'[f].program = disk[f].program
                          /\ disk[f].exists => disk'[f].exists
  BY <1>1, <1>4 DEF TypeOK, DiskFiles
<1>6. FilesOK'
  BY <1>1, <1>3, <1>5 DEF FilesOK, FileOK
<1>7. TypeOK'
  BY <1>1, <1>2, <1>3, <1>5 DEF TypeOK
<1>8. SessionHoldsItsProgram' /\ AnswerOK'
  BY <1>2 DEF SessionHoldsItsProgram, AnswerOK
<1>9. CallsInOrder'
  BY <1>1, <1>2, <1>3 DEF CallsInOrder, At, Closing, Opening
<1>10. LocksFollowSession'
  BY <1>1, <1>2, <1>3 DEF LocksFollowSession, Opening
<1>11. MemoryOK' /\ FiledOK'
  BY <1>1, <1>3 DEF MemoryOK, FiledOK, Theirs
<1> QED BY <1>6, <1>7, <1>8, <1>9, <1>10, <1>11

\* The program is loaded, or imported.
LEMMA LoadInv == ASSUME IInv, Load PROVE IInv'
<1> USE SessionAssumption DEF IInv, SessionInv
<1>1. /\ call.at = "load" /\ call.at \in Opening
      /\ call.file \in Files /\ call.file # None /\ call.file \in opened
      /\ backend = "ghidra" /\ current = None
  BY DEF Load, At, Opening, CallsInOrder, TypeOK, Calls
<1>2. PICK step \in {"analysis", "options"} : GoTo(step)
  BY DEF Load
<1>3. /\ call' \in Calls /\ call'.at = step /\ ~Ready' /\ call'.op = call.op
      /\ call'.file = call.file /\ answer' = answer /\ failed' = failed
  <2>1. step \in Closing \cup Opening
    BY DEF Opening
  <2> QED BY <1>2, <2>1, Going
<1>4. /\ UNCHANGED <<backend, disk, current, opened, work>>
      /\ held' = held \cup {call.file} /\ filed' = Stored(call.file)
  BY DEF Load
<1>5. /\ memory' \in Programs /\ memory'.present /\ ProgramOK(memory')
      /\ memory'.edit <= work
      /\ MayFind(call.file) => disk[call.file].program.edit <= memory'.edit
      /\ MayFind(call.file) /\ disk[call.file].program.present => Stored(call.file)
      /\ Stored(call.file) \in BOOLEAN
  <2>1. /\ disk[call.file].program \in Programs /\ FileOK(disk[call.file])
        /\ disk[call.file].program.edit <= work /\ 0 <= work
        /\ disk[call.file].program.edit \in 0 .. MaxWork
    BY <1>1, DiskTypes DEF TypeOK, FilesOK, Programs
  <2>2. CASE Stored(call.file)
    BY <2>1, <2>2 DEF Load, Stored, FileOK
  <2>3. CASE ~Stored(call.file)
    <3>1. memory' = Imported
      BY <2>3 DEF Load
    <3>2. MayFind(call.file) => ~disk[call.file].program.present
      BY <1>1, <2>3 DEF MayFind, Stored
    <3>3. MayFind(call.file) => disk[call.file].program.edit = 0
      BY <2>1, <3>2 DEF FileOK, ProgramOK
    <3>4. Stored(call.file) \in BOOLEAN
      BY DEF Stored
    <3>5. /\ memory' \in Programs /\ memory'.present /\ ProgramOK(memory')
          /\ memory'.edit = 0
      BY <3>1, ProgramTypes, ProgramsOK
    <3> QED BY <2>1, <2>3, <3>2, <3>3, <3>4, <3>5
  <2> QED BY <2>2, <2>3
<1>6. TypeOK'
  BY <1>1, <1>3, <1>4, <1>5 DEF TypeOK
<1>7. SessionHoldsItsProgram' /\ AnswerOK'
  BY <1>3 DEF SessionHoldsItsProgram, AnswerOK
<1>8. CallsInOrder'
  BY <1>1, <1>2, <1>3, <1>4, <1>5 DEF CallsInOrder, At, Closing, Opening
<1>9. LocksFollowSession' /\ FilesOK'
  BY <1>1, <1>3, <1>4 DEF LocksFollowSession, FilesOK, Opening
<1>10. MemoryOK' /\ FiledOK'
  <2>1. \A f \in Files : Theirs(f)' => f = call.file /\ MayFind(f)
    BY <1>1, <1>3, <1>4, SessionAssumption DEF Theirs, MayFind
  <2> QED BY <1>1, <1>3, <1>4, <1>5, <2>1 DEF MemoryOK, FiledOK
<1> QED BY <1>6, <1>7, <1>8, <1>9, <1>10

\* Its options are set.
LEMMA OptionsInv == ASSUME IInv, Options PROVE IInv'
<1> USE SessionAssumption DEF IInv, SessionInv, engineVars
<1>1. call.at = "options" /\ call.at \in Opening /\ "analysis" \in Opening
  BY DEF Options, At, Opening
<1>2. /\ call' \in Calls /\ call'.at = "analysis" /\ ~Ready' /\ call'.op = call.op
      /\ call'.file = call.file /\ answer' = answer /\ failed' = failed
  BY <1>1, Going DEF Options
<1>3. UNCHANGED <<backend, disk, current, memory, filed, opened, held, work>>
  BY DEF Options
<1>4. TypeOK' /\ SessionHoldsItsProgram' /\ AnswerOK'
  BY <1>2, <1>3 DEF TypeOK, SessionHoldsItsProgram, AnswerOK
<1>5. CallsInOrder'
  BY <1>1, <1>2, <1>3 DEF CallsInOrder, At, Closing, Opening
<1>6. LocksFollowSession' /\ FilesOK'
  BY <1>1, <1>2, <1>3 DEF LocksFollowSession, FilesOK, Opening
<1>7. MemoryOK' /\ FiledOK'
  <2>1. \A f \in Files : Theirs(f)' => Theirs(f) /\ call.at \notin {"release", "shut"}
    BY <1>1, <1>2, <1>3 DEF Theirs, MayFind
  <2> QED BY <1>3, <2>1 DEF MemoryOK, FiledOK
<1> QED BY <1>4, <1>5, <1>6, <1>7

\* It may be analyzed.
LEMMA AnalyzeInv == ASSUME IInv, Analyze PROVE IInv'
<1> USE SessionAssumption DEF IInv, SessionInv
<1>1. /\ call.at = "analysis" /\ call.at \in Opening /\ "commit" \in Opening
      /\ memory.present /\ memory \in Programs
  BY DEF Analyze, At, Opening, CallsInOrder, TypeOK
<1>2. /\ call' \in Calls /\ call'.at = "commit" /\ ~Ready' /\ call'.op = call.op
      /\ call'.file = call.file /\ answer' = answer /\ failed' = failed
  BY <1>1, Going DEF Analyze
<1>3. UNCHANGED <<backend, disk, current, filed, opened, held, work>>
  BY DEF Analyze
<1>4. /\ memory' \in Programs /\ memory'.present /\ memory'.edit = memory.edit
      /\ ProgramOK(memory')
  BY <1>1, ProgramTypes, ProgramsOK DEF Analyze, MemoryOK
<1>5. TypeOK' /\ SessionHoldsItsProgram' /\ AnswerOK'
  BY <1>2, <1>3, <1>4 DEF TypeOK, SessionHoldsItsProgram, AnswerOK
<1>6. CallsInOrder'
  BY <1>1, <1>2, <1>3, <1>4 DEF CallsInOrder, At, Closing, Opening
<1>7. LocksFollowSession' /\ FilesOK'
  BY <1>1, <1>2, <1>3 DEF LocksFollowSession, FilesOK, Opening
<1>8. MemoryOK' /\ FiledOK'
  <2>1. \A f \in Files : Theirs(f)' => Theirs(f) /\ call.at \notin {"release", "shut"}
    BY <1>1, <1>2, <1>3, <1>4 DEF Theirs, MayFind
  <2> QED BY <1>3, <1>4, <2>1 DEF MemoryOK, FiledOK
<1> QED BY <1>5, <1>6, <1>7, <1>8

\* The session's fields are set: the open succeeds, or what follows raises.
LEMMA OpenedInv ==
  ASSUME IInv, call.at \in Opening, NEW a \in BOOLEAN, Succeeds(a) \/ Fails(call.file),
         a => memory'.ran, UNCHANGED <<backend, disk, filed, held, work>>,
         current' = call.file, opened' \subseteq opened \cup {call.file}, call.file \in opened',
         memory' \in Programs, memory'.present, ProgramOK(memory'), memory'.edit <= work,
         MayFind(call.file) => disk[call.file].program.edit <= memory'.edit,
         backend = "ghidra" => /\ call.file \in held
                               /\ MayFind(call.file) /\ disk[call.file].program.present => filed,
         backend = "ida" => opened' = {call.file}
  PROVE  IInv'
<1> USE SessionAssumption DEF IInv, SessionInv
<1>1. call.file \in Files /\ current = None
  BY DEF CallsInOrder, TypeOK, Calls
<1>2. /\ call' = Idle /\ failed \subseteq failed' /\ failed' \subseteq Files
      /\ answer' = Answer("ok", a) \/ answer' = Answer("failed", FALSE)
  BY <1>1 DEF Succeeds, Fails, TypeOK
<1>3. call' \in Calls /\ Ready' /\ call'.at = "idle" /\ call'.op = "none" /\ call'.file = None
  BY <1>2, CallTypes DEF Ready
<1>4. answer' \in Answers /\ (answer'.analyzed => a)
  <2>1. CASE answer' = Answer("ok", a)
    BY <2>1 DEF Answer, Answers, Endings
  <2>2. CASE answer' = Answer("failed", FALSE)
    BY <2>2 DEF Answer, Answers, Endings
  <2> QED BY <1>2, <2>1, <2>2
<1>5. TypeOK'
  BY <1>1, <1>2, <1>3, <1>4 DEF TypeOK
<1>6. SessionHoldsItsProgram'
  BY <1>1 DEF SessionHoldsItsProgram
<1>7. AnswerOK'
  BY <1>4 DEF AnswerOK
<1>8. CallsInOrder'
  BY <1>1, <1>3 DEF CallsInOrder, At, Closing, Opening
<1>9. LocksFollowSession'
  <2>1. opened \cup held \subseteq failed \cup {call.file}
    BY <1>1 DEF LocksFollowSession, TypeOK
  <2> QED BY <1>2, <2>1 DEF LocksFollowSession
<1>10. FilesOK'
  BY DEF FilesOK
<1>11. MemoryOK' /\ FiledOK'
  <2>1. \A f \in Files : Theirs(f)' => f = call.file /\ MayFind(f)
    BY <1>3 DEF Theirs, MayFind, Opening
  <2> QED BY <2>1 DEF MemoryOK, FiledOK
<1> QED BY <1>5, <1>6, <1>7, <1>8, <1>9, <1>10, <1>11

\* So is it in Ghidra.
LEMMA CommitInv == ASSUME IInv, Commit PROVE IInv'
<1> USE SessionAssumption DEF IInv, SessionInv
<1>1. /\ call.at = "commit" /\ call.at \in Opening /\ memory.present
      /\ backend = "ghidra" /\ call.file \in opened
      /\ call.file \in held /\ call.file \in Files
  BY DEF Commit, At, Opening, CallsInOrder, TypeOK, Calls
<1>2. memory \in Programs /\ ProgramOK(memory) /\ memory.edit <= work
  BY DEF TypeOK, MemoryOK
<1>3. /\ MayFind(call.file) => disk[call.file].program.edit <= memory.edit
      /\ MayFind(call.file) /\ disk[call.file].program.present => filed
  BY <1>1 DEF MemoryOK, FiledOK, Theirs
<1>4. memory.marked \in BOOLEAN /\ (memory.marked => memory.ran)
  BY <1>2 DEF Programs, ProgramOK
<1>5. /\ UNCHANGED <<backend, disk, memory, filed, opened, held, work>>
      /\ current' = call.file /\ (Succeeds(memory.marked) \/ Fails(call.file))
  BY DEF Commit
<1> QED BY <1>1, <1>2, <1>3, <1>4, <1>5, OpenedInv

\* The whole open, in IDA.
LEMMA IdaOpensInv == ASSUME IInv, IdaOpens PROVE IInv'
<1> USE SessionAssumption DEF IInv, SessionInv
<1>1. /\ call.at = "project" /\ call.at \in Opening
      /\ backend = "ida" /\ call.file \in Files
  BY DEF IdaOpens, At, Opening, CallsInOrder, TypeOK, Calls
<1> DEFINE stored == disk[call.file].exists
           program == IF stored THEN disk[call.file].program ELSE Imported
<1>2. /\ disk[call.file].program \in Programs /\ FileOK(disk[call.file])
      /\ disk[call.file].program.edit <= work /\ 0 <= work
      /\ disk[call.file].program.edit \in 0 .. MaxWork
      /\ stored \in BOOLEAN
      /\ stored => disk[call.file].program.present
  BY <1>1, DiskTypes DEF TypeOK, FilesOK, DiskFiles, Programs
<1>3. /\ program \in Programs /\ program.present /\ ProgramOK(program)
      /\ program.edit <= work /\ disk[call.file].program.edit <= program.edit
  <2>1. CASE stored
    BY <1>2, <2>1 DEF FileOK
  <2>2. CASE ~stored
    <3>1. program = Imported /\ disk[call.file].program.edit = 0
      BY <1>2, <2>2 DEF FileOK, ProgramOK
    <3> QED BY <1>2, <3>1, ProgramTypes, ProgramsOK
  <2> QED BY <2>1, <2>2
<1>4. /\ memory' = IF call.analysis THEN Analyzed(program) ELSE program
      /\ Succeeds(stored /\ memory'.marked) \/ Fails(call.file)
      /\ opened' = {call.file} /\ current' = call.file
      /\ UNCHANGED <<backend, disk, filed, held, work>>
  BY DEF IdaOpens
<1>5. /\ memory' \in Programs /\ memory'.present /\ ProgramOK(memory')
      /\ memory'.edit = program.edit
  <2>1. CASE memory' = Analyzed(program)
    BY <1>3, <2>1, ProgramTypes, ProgramsOK
  <2>2. CASE memory' = program
    BY <1>3, <2>2
  <2> QED BY <1>4, <2>1, <2>2
<1>6. /\ (stored /\ memory'.marked) \in BOOLEAN
      /\ (stored /\ memory'.marked) => memory'.ran
  BY <1>2, <1>5 DEF ProgramOK, Programs
<1>7. memory'.edit <= work /\ disk[call.file].program.edit <= memory'.edit
  BY <1>3, <1>5
<1> HIDE DEF stored, program
<1> QED BY <1>1, <1>4, <1>5, <1>6, <1>7, OpenedInv

-----------------------------------------------------------------------------
(* The invariant *)

\* It holds to begin with.
LEMMA InitInv == ASSUME Init PROVE IInv
<1> USE SessionAssumption DEF Init
<1>1. Ready /\ call.at = "idle" /\ call.op = "none" /\ call.file = None /\ call \in Calls
  BY CallTypes DEF Ready
<1>2. \A f \in Files : disk[f] = Absent
  OBVIOUS
<1>3. TypeOK
  <2>1. answer \in Answers
    BY CallTypes DEF Endings
  <2>2. disk \in [Files -> DiskFiles]
    <3>1. Absent \in DiskFiles /\ disk = [f \in Files |-> Absent]
      BY DiskTypes
    <3> QED BY <3>1
  <2>3. memory \in Programs
    BY ProgramTypes
  <2>4. /\ backend \in Backends /\ current \in Files \cup {None} /\ opened \subseteq Files
        /\ held \subseteq Files /\ failed \subseteq Files
    OBVIOUS
  <2>5. filed \in BOOLEAN
    OBVIOUS
  <2>6. work \in 0 .. MaxWork
    OBVIOUS
  <2> HIDE DEF Init
  <2> QED BY <1>1, <2>1, <2>2, <2>3, <2>4, <2>5, <2>6 DEF TypeOK
<1>4. SessionHoldsItsProgram
  BY ProgramTypes DEF SessionHoldsItsProgram
<1>5. CallsInOrder
  BY <1>1, ProgramTypes DEF CallsInOrder, At, Closing, Opening
<1>6. LocksFollowSession /\ AnswerOK
  BY DEF LocksFollowSession, AnswerOK
<1>7. FilesOK
  BY <1>2, DiskTypes DEF FilesOK
<1>8. MemoryOK /\ FiledOK
  BY ProgramTypes, ProgramsOK DEF MemoryOK, FiledOK, Theirs
<1> QED BY <1>3, <1>4, <1>5, <1>6, <1>7, <1>8 DEF IInv, SessionInv

\* Every step keeps it.
LEMMA NextInv == ASSUME IInv, [Next]_vars PROVE IInv'
<1>1. CASE Edit
  BY <1>1, EditInv
<1>2. CASE AnalyzeDatabase
  BY <1>2, AnalyzeDatabaseInv
<1>3. CASE ReanalyzeRange
  BY <1>3, ReanalyzeRangeInv
<1>4. CASE SaveDatabase
  BY <1>4, SaveDatabaseInv
<1>5. ASSUME NEW s \in Snapshots, TakeSnapshot(s) PROVE IInv'
  BY <1>5, TakeSnapshotInv
<1>6. ASSUME NEW s \in Snapshots, RestoreSnapshot(s) PROVE IInv'
  BY <1>6, RestoreSnapshotInv
<1>7. ASSUME NEW f \in Databases, OpenDatabase(f) PROVE IInv'
  BY <1>7, OpenDatabaseInv
<1>8. CASE CloseDatabase \/ Exit
  BY <1>8, CloseDatabaseInv, ExitInv
<1>9. CASE Save \/ Release \/ Shut \/ IdaCloses \/ CloseFails
  BY <1>9, SaveInv, ReleaseInv, ShutInv, IdaClosesInv, CloseFailsInv
<1>10. CASE Prepare \/ Project \/ Load \/ Options \/ Analyze
  BY <1>10, PrepareInv, ProjectInv, LoadInv, OptionsInv, AnalyzeInv
<1>11. CASE Commit \/ IdaOpens \/ OpenFails \/ Killed
  BY <1>11, CommitInv, IdaOpensInv, OpenFailsInv, KilledInv
<1>12. CASE UNCHANGED vars
  BY <1>12 DEF IInv, SessionInv, TypeOK, SessionHoldsItsProgram, CallsInOrder,
     LocksFollowSession, FilesOK, MemoryOK, FiledOK, Theirs, MayFind, AnswerOK, Ready, At, vars, callVars, engineVars
<1> QED BY <1>1, <1>2, <1>3, <1>4, <1>5, <1>6, <1>7, <1>8, <1>9, <1>10, <1>11, <1>12 DEF Next

\* So it is an invariant.
LEMMA Invariant == Spec => []IInv
<1> QED BY InitInv, NextInv, PTL DEF Spec

\* Whatever calls are made, cut short or fail, and whatever earlier ones have left
\* open in the engine, a session that is open has its own database open there and
\* its program in use: is_open, which the tools go by, may be trusted.
THEOREM SessionInvariant == Spec => []SessionInv
<1>1. IInv => SessionInv
  BY DEF IInv
<1> QED BY <1>1, Invariant, PTL

\* What the engine has open or in use outlives its session only if a call failed
\* on it.
THEOREM LocksFollowSessions == Spec => []LocksFollowSession
<1>1. IInv => LocksFollowSession
  BY DEF IInv
<1> QED BY <1>1, Invariant, PTL

\* What claims to be analyzed has been through a full analysis, on disk, in the
\* engine and in the answer of open_database.
THEOREM AnalyzedIsTrue == Spec => []AnalyzedMeansAnalyzed
<1>1. IInv => AnalyzedMeansAnalyzed
  BY DEF IInv, FilesOK, FileOK, ProgramOK, MemoryOK, AnswerOK, AnalyzedMeansAnalyzed
<1> QED BY <1>1, Invariant, PTL

-----------------------------------------------------------------------------
(* What is written *)

\* Between the save of Ghidra's close and its end the file has the program.
SavedFirst ==
  call.at \in {"release", "shut"} /\ call.save =>
    disk[current].exists /\ disk[current].program = memory

\* A file that is written with the program in the engine.
LEMMA WritingNotes ==
  ASSUME TypeOK, current \in Files
  PROVE  SavedIn(current)[current].exists /\ SavedIn(current)[current].program = memory
BY DEF TypeOK, SavedIn, Holding

\* Every step keeps it.
LEMMA SavedFirstNext == ASSUME IInv, SavedFirst, [Next]_vars PROVE SavedFirst'
<1> USE DEF IInv, SessionInv
<1>1. CASE Save
  <2>1. call.at \in Closing /\ "release" \in Closing
    BY <1>1 DEF Save, At, Closing
  <2>2. call'.save = call.save
    BY <1>1, <2>1, Going DEF Save
  <2>3. current \in Files /\ UNCHANGED <<memory, current>> /\ disk' = Written
    BY <1>1, <2>1 DEF Save, CallsInOrder, TypeOK, engineVars
  <2> QED BY <2>2, <2>3, WritingNotes DEF SavedFirst, Written
<1>2. CASE Release
  <2>1. call.at \in Closing /\ "shut" \in Closing
    BY <1>2 DEF Release, At, Closing
  <2>2. call'.save = call.save /\ UNCHANGED <<memory, current, disk>>
    BY <1>2, <2>1, Going DEF Release
  <2> QED BY <1>2, <2>2 DEF SavedFirst, Release, At
<1>3. CASE call' = call /\ UNCHANGED <<disk, memory, current>>
  BY <1>3 DEF SavedFirst
<1>4. CASE call'.at \notin {"release", "shut"}
  BY <1>4 DEF SavedFirst
<1>5. CASE Edit \/ ReanalyzeRange
  <2>1. call' = Idle
    BY <1>5 DEF Edit, ReanalyzeRange, callVars, Ready
  <2> QED BY <1>4, <2>1, CallTypes
<1>6. CASE AnalyzeDatabase \/ SaveDatabase \/ \E s \in Snapshots : TakeSnapshot(s)
  <2>1. call' = Idle
    BY <1>6 DEF AnalyzeDatabase, SaveDatabase, TakeSnapshot, Succeeds, Fails
  <2> QED BY <1>4, <2>1, CallTypes
<1>7. CASE \/ \E s \in Snapshots : RestoreSnapshot(s)
           \/ \E f \in Databases : OpenDatabase(f)
           \/ CloseDatabase \/ Exit
  <2>1. ASSUME NEW op, NEW f, NEW x, NEW y, NEW z, Start(op, f, x, y, z)
        PROVE  call'.at \in {"save", "prepare"}
    BY <2>1 DEF Start
  <2>2. call'.at \in {"save", "prepare"}
    BY <1>7, <2>1 DEF RestoreSnapshot, OpenDatabase, CloseDatabase, Exit
  <2> QED BY <1>4, <2>2
<1>8. CASE Shut \/ IdaCloses \/ CloseFails \/ OpenFails \/ Killed \/ Commit \/ IdaOpens
  <2>1. call' = Idle \/ GoTo("prepare")
    BY <1>8 DEF Shut, IdaCloses, Closed, Succeeds, CloseFails, OpenFails, Fails, Killed,
       Commit, IdaOpens
  <2>2. CASE call' = Idle
    BY <1>4, <2>2, CallTypes
  <2>3. CASE GoTo("prepare")
    <3>1. call'.at = "prepare"
      BY <2>3, Going DEF Opening
    <3> QED BY <1>4, <3>1
  <2> QED BY <2>1, <2>2, <2>3
<1>9. CASE Prepare \/ Project \/ Load \/ Options \/ Analyze
  <2>1. PICK step \in {"project", "load", "analysis", "options", "commit"} : GoTo(step)
    BY <1>9 DEF Prepare, Project, Load, Options, Analyze
  <2>2. call'.at = step
    BY <2>1, Going DEF Opening
  <2> QED BY <1>4, <2>2
<1>10. CASE UNCHANGED vars
  BY <1>3, <1>10 DEF vars, callVars, engineVars
<1> QED BY <1>1, <1>2, <1>5, <1>6, <1>7, <1>8, <1>9, <1>10 DEF Next

\* Work that is not in the file is given up only when that was asked for, when
\* the answer says that the call failed, or when the process is killed.
THEOREM WorkIsSaved == Spec => NoWorkDroppedSilently
<1> DEFINE Dropped == current # None /\ current' = None /\ disk'[current].program # memory
           Told == ~call.save \/ answer'.status \in {"failed", "killed"}
<1>1. ASSUME IInv, SavedFirst, Next, Dropped PROVE Told
  <2> USE <1>1 DEF IInv, SessionInv
  <2>1. current \in Files
    BY DEF TypeOK
  <2>2. CASE Shut
    <3>1. call.at = "shut" /\ UNCHANGED disk
      BY <2>2 DEF Shut, At
    <3> QED BY <3>1 DEF SavedFirst
  <2>3. CASE IdaCloses
    <3>1. disk' = Written
      BY <2>3 DEF IdaCloses
    <3> QED BY <2>1, <3>1, WritingNotes DEF Written
  <2>4. CASE CloseFails \/ OpenFails
    <3>1. answer' = Answer("failed", FALSE)
      BY <2>4 DEF CloseFails, OpenFails, Fails
    <3> QED BY <3>1 DEF Answer
  <2>5. CASE Killed
    BY <2>5 DEF Killed, Answer
  <2>6. CASE Edit \/ AnalyzeDatabase \/ ReanalyzeRange \/ SaveDatabase \/ CloseDatabase \/ Exit
             \/ \E s \in Snapshots : TakeSnapshot(s) \/ RestoreSnapshot(s)
    BY <2>6 DEF Edit, AnalyzeDatabase, ReanalyzeRange, SaveDatabase, CloseDatabase, Exit,
       TakeSnapshot, RestoreSnapshot
  <2>7. CASE Save \/ Release \/ Prepare \/ Project \/ Load \/ Options \/ Analyze
             \/ \E f \in Databases : OpenDatabase(f)
    BY <2>7 DEF Save, Release, Prepare, Project, Load, Options, Analyze, OpenDatabase
  <2>8. CASE Commit \/ IdaOpens
    <3>1. call.at \in Opening
      BY <2>8 DEF Commit, IdaOpens, At, Opening
    <3> QED BY <3>1 DEF CallsInOrder
  <2> QED BY <2>2, <2>3, <2>4, <2>5, <2>6, <2>7, <2>8 DEF Next
<1>2. IInv /\ SavedFirst /\ [Next]_vars => [Dropped => Told]_vars
  BY <1>1
<1>3. Init => SavedFirst
  BY CallTypes DEF Init, SavedFirst
<1>4. Spec => []SavedFirst
  BY <1>3, SavedFirstNext, Invariant, PTL DEF Spec
<1> QED BY <1>2, <1>4, Invariant, PTL DEF Spec, NoWorkDroppedSilently

\* No save, close, snapshot, restore or open puts older work where newer work was
\* saved, or deletes it: only force_new does, for the file it is given, and what
\* happens to a program that Ghidra's loader has named otherwise.
THEOREM SavedWorkIsKept == Spec => SavedWorkStays
<1> DEFINE Older == \A f \in Files : disk'[f].program.edit < disk[f].program.edit
                       => \/ call.force /\ call.file = f
                          \/ backend = "ghidra" /\ f \in Renamed
<1>1. ASSUME IInv, Next PROVE Older
  <2> USE <1>1, SessionAssumption DEF IInv, SessionInv
  <2>0. \A f \in Files : disk[f].program.edit \in Nat
    BY DEF TypeOK, DiskFiles, Programs
  <2>1. ASSUME disk' = disk PROVE Older
    BY <2>0, <2>1
  <2>2. ASSUME current \in Files, memory.present, call.at \notin {"release", "shut"},
               disk' \in {SavedIn(current)} \cup NotSaved(current)
        PROVE  Older
    <3>1. memory.edit \in Nat
      BY DEF TypeOK, Programs
    <3>2. /\ \A f \in Files \ {current} : disk'[f] = disk[f]
          /\ \/ disk'[current] = disk[current]
             \/ disk'[current] = Holding(memory)
             \/ Stale(current)
      BY <2>2, SavingOK
    <3>3. CASE MayFind(current)
      <4>1. Theirs(current)
        BY <2>2, <3>3 DEF Theirs
      <4>2. disk[current].program.edit <= memory.edit /\ ~Stale(current)
        BY <2>2, <4>1 DEF MemoryOK, FiledOK, Stale
      <4>3. Holding(memory).program = memory
        BY DEF Holding
      <4> QED BY <2>0, <3>1, <3>2, <4>2, <4>3
    <3>4. CASE ~MayFind(current)
      <4>1. backend = "ghidra" /\ current \in Renamed
        BY <3>4 DEF MayFind, TypeOK, Backends
      <4> QED BY <2>0, <3>2, <4>1
    <3> QED BY <3>3, <3>4
  <2>3. CASE SaveDatabase
    <3>1. current \in Files /\ memory.present /\ call.at \notin {"release", "shut"}
      BY <2>3, CallTypes DEF SaveDatabase, SessionHoldsItsProgram, TypeOK, Ready
    <3> QED BY <2>2, <2>3, <3>1 DEF SaveDatabase
  <2>4. CASE Save \/ IdaCloses
    <3>1. call.at = "save" /\ call.at \in Closing /\ disk' = Written
      BY <2>4 DEF Save, IdaCloses, At, Closing
    <3>2. current \in Files /\ memory.present
      BY <3>1 DEF CallsInOrder, TypeOK
    <3> QED BY <2>1, <2>2, <3>1, <3>2 DEF Written
  <2>5. CASE CloseFails \/ Killed
    <3>1. disk' \in WrittenOrNot
      BY <2>5 DEF CloseFails, Killed
    <3>2. CASE disk' = disk
      BY <2>1, <3>2
    <3>3. CASE disk' # disk
      <4>1. call.at = "save" /\ disk' \in {SavedIn(current)} \cup NotSaved(current)
        BY <3>1, <3>3 DEF WrittenOrNot, At
      <4>2. current \in Files /\ memory.present
        BY <4>1 DEF CallsInOrder, TypeOK, Closing
      <4> QED BY <2>2, <4>1, <4>2
    <3> QED BY <3>2, <3>3
  <2>6. ASSUME NEW s \in Snapshots, TakeSnapshot(s) PROVE Older
    <3>1. s \in Files /\ ~disk[s].exists
          /\ (disk' = disk \/ disk' = [disk EXCEPT ![s] = Holding(memory)])
      BY <2>6 DEF TakeSnapshot, Files
    <3>2. disk[s].program.edit = 0
      BY <3>1 DEF FilesOK, FileOK, ProgramOK
    <3>3. ASSUME disk' = [disk EXCEPT ![s] = Holding(memory)] PROVE Older
      <4>1. disk'[s].program = memory /\ \A f \in Files \ {s} : disk'[f] = disk[f]
        BY <3>1, <3>3 DEF TypeOK, Holding
      <4>2. memory.edit \in Nat
        BY DEF TypeOK, Programs
      <4> QED BY <2>0, <3>2, <4>1, <4>2
    <3> QED BY <2>1, <3>1, <3>3
  <2>7. CASE Prepare
    <3>1. disk' = disk \/ (call.force /\ disk' = [disk EXCEPT ![call.file] = Absent])
      BY <2>7 DEF Prepare
    <3>2. ASSUME call.force, disk' = [disk EXCEPT ![call.file] = Absent] PROVE Older
      <4>1. \A f \in Files \ {call.file} : disk'[f] = disk[f]
        BY <3>2 DEF TypeOK
      <4> QED BY <2>0, <3>2, <4>1
    <3> QED BY <2>1, <3>1, <3>2
  <2>8. CASE Project
    <3>1. \A f \in Files : disk'[f].program = disk[f].program
      BY <2>8 DEF Project, TypeOK, DiskFiles
    <3> QED BY <2>0, <3>1
  <2>9. CASE Edit \/ AnalyzeDatabase \/ ReanalyzeRange \/ CloseDatabase \/ Exit
             \/ \E s \in Snapshots : RestoreSnapshot(s)
    BY <2>1, <2>9 DEF Edit, AnalyzeDatabase, ReanalyzeRange, CloseDatabase, Exit, RestoreSnapshot
  <2>10. CASE Release \/ Shut \/ Load \/ Options \/ Analyze \/ Commit \/ IdaOpens
             \/ OpenFails \/ \E f \in Databases : OpenDatabase(f)
    BY <2>1, <2>10 DEF Release, Shut, Load, Options, Analyze, Commit, IdaOpens,
       OpenFails, OpenDatabase
  <2> QED BY <2>3, <2>4, <2>5, <2>6, <2>7, <2>8, <2>9, <2>10 DEF Next
<1>2. IInv /\ [Next]_vars => [Older]_vars
  BY <1>1
<1> QED BY <1>2, Invariant, PTL DEF Spec, SavedWorkStays

=============================================================================
