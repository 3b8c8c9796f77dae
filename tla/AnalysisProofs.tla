--------------------------- MODULE AnalysisProofs ---------------------------
(* Theorems about Analysis, for every value of its constants. *)
EXTENDS Analysis, SequenceTheorems, TLAPS

DbType == [Dbs -> DbRec]
PassType == [Dbs -> Seq(PassRec)]
CallerType == [Callers -> CallerRec]

\* What every step but the start of a pass does to the passes: none appears,
\* none runs again, a cancellation stays.
PassesKept ==
  /\ passes' \in PassType
  /\ \A d \in Dbs :
       /\ DOMAIN passes'[d] = DOMAIN passes[d]
       /\ \A n \in DOMAIN passes[d] :
            /\ passes'[d][n].pc # "done" => passes[d][n].pc # "done"
            /\ passes[d][n].cancel => passes'[d][n].cancel

\* What every step of the spawn, of a pass or of the worker does to a worker:
\* it keeps its analysis task and its close goes on waiting for the same one.
DbKept ==
  /\ db' \in DbType
  /\ \A d \in Dbs :
       /\ db'[d].task = db[d].task
       /\ db'[d].close = "awaitAnalysis" => /\ db[d].close = "awaitAnalysis"
                                            /\ db'[d].awaited = db[d].awaited

\* Requests join passes that exist after the step.
CallersKept ==
  /\ caller' \in CallerType
  /\ \A c \in Callers, d \in Dbs :
       caller'[c].child[d] = "joining" => caller'[c].on[d] \in DOMAIN passes'[d]

-----------------------------------------------------------------------------
(* Facts about one update *)

LEMMA SeqSet ==
  ASSUME NEW S, NEW s \in Seq(S), NEW n \in 1 .. Len(s), NEW p \in S
  PROVE  LET q == [s EXCEPT ![n] = p]
         IN  /\ q \in Seq(S)
             /\ Len(q) = Len(s)
             /\ \A j \in 1 .. Len(s) : q[j] = IF j = n THEN p ELSE s[j]
BY ExceptSeq

LEMMA PassSet ==
  ASSUME AnalysisInv, NEW d \in Dbs, NEW n \in DOMAIN passes[d],
         NEW p \in PassRec, PassBecomes(d, n, p),
         p.pc # "done" => passes[d][n].pc # "done",
         passes[d][n].cancel => p.cancel
  PROVE  PassesKept /\ passes'[d][n] = p
<1>1. passes[d] \in Seq(PassRec)
  BY DEF AnalysisInv, TypeOK
<1>2. n \in 1 .. Len(passes[d])
  BY <1>1
<1> DEFINE q == [passes[d] EXCEPT ![n] = p]
<1>3. /\ q \in Seq(PassRec)
      /\ Len(q) = Len(passes[d])
      /\ \A j \in 1 .. Len(passes[d]) : q[j] = IF j = n THEN p ELSE passes[d][j]
  BY <1>1, <1>2, SeqSet
<1>4. passes' = [passes EXCEPT ![d] = q]
  BY DEF PassBecomes
<1>5. passes \in PassType
  BY DEF AnalysisInv, TypeOK, PassType
<1>6. passes' \in PassType /\ passes'[d] = q
      /\ \A e \in Dbs : e # d => passes'[e] = passes[e]
  BY <1>3, <1>4, <1>5 DEF PassType
<1>7. DOMAIN q = DOMAIN passes[d] /\ DOMAIN q = 1 .. Len(passes[d])
  BY <1>1, <1>3
<1> HIDE DEF q
<1>8. ASSUME NEW e \in Dbs
      PROVE  /\ DOMAIN passes'[e] = DOMAIN passes[e]
             /\ \A m \in DOMAIN passes[e] :
                  /\ passes'[e][m].pc # "done" => passes[e][m].pc # "done"
                  /\ passes[e][m].cancel => passes'[e][m].cancel
  <2>1. CASE e = d
    BY <2>1, <1>3, <1>6, <1>7
  <2>2. CASE e # d
    BY <2>2, <1>6
  <2> QED BY <2>1, <2>2
<1> QED BY <1>2, <1>3, <1>6, <1>8 DEF PassesKept

LEMMA DbSet ==
  ASSUME AnalysisInv, NEW d \in Dbs, NEW r \in DbRec,
         db' = [db EXCEPT ![d] = r],
         r.task = db[d].task,
         r.close = "awaitAnalysis" => /\ db[d].close = "awaitAnalysis"
                                      /\ r.awaited = db[d].awaited
  PROVE  DbKept
BY DEF AnalysisInv, TypeOK, DbType, DbKept

LEMMA CallerSet ==
  ASSUME AnalysisInv, NEW c \in Callers, NEW r \in CallerRec, Becomes(c, r),
         \A d \in Dbs : DOMAIN passes[d] \subseteq DOMAIN passes'[d],
         \A d \in Dbs : r.child[d] = "joining" => r.on[d] \in DOMAIN passes'[d]
  PROVE  CallersKept
<1>1. caller \in CallerType
  BY DEF AnalysisInv, TypeOK, CallerType
<1>2. caller' = [caller EXCEPT ![c] = r]
  BY DEF Becomes
<1>3. caller' \in CallerType /\ caller'[c] = r
      /\ \A e \in Callers : e # c => caller'[e] = caller[e]
  BY <1>1, <1>2 DEF CallerType
<1>4. \A e \in Callers, d \in Dbs :
        caller[e].child[d] = "joining" => caller[e].on[d] \in DOMAIN passes'[d]
  BY DEF AnalysisInv, JoinsExist
<1> QED BY <1>3, <1>4 DEF CallersKept

LEMMA CallersSame ==
  ASSUME AnalysisInv, UNCHANGED caller,
         \A d \in Dbs : DOMAIN passes[d] \subseteq DOMAIN passes'[d]
  PROVE  CallersKept
BY DEF AnalysisInv, TypeOK, JoinsExist, CallersKept, CallerType

LEMMA PassesSame ==
  ASSUME AnalysisInv, UNCHANGED passes PROVE PassesKept
BY DEF AnalysisInv, TypeOK, PassesKept, PassType

LEMMA DbSame ==
  ASSUME AnalysisInv, UNCHANGED db PROVE DbKept
BY DEF AnalysisInv, TypeOK, DbKept, DbType

\* A step that keeps all three keeps the invariant.
LEMMA Kept ==
  ASSUME AnalysisInv, PassesKept, DbKept, CallersKept
  PROVE  AnalysisInv'
<1>1. TypeOK'
  BY DEF TypeOK, PassesKept, DbKept, CallersKept, DbType, PassType, CallerType
<1>2. OneAnalysis'
  BY DEF OneAnalysis, AnalysisInv, PassesKept, DbKept, Running
<1>3. ASSUME NEW d \in Dbs, (db[d].close = "awaitAnalysis")'
      PROVE  /\ (db[d].awaited \in DOMAIN passes[d])'
             /\ (Running(d, db[d].awaited) => passes[d][db[d].awaited].cancel)'
  <2>1. /\ db[d].close = "awaitAnalysis"
        /\ db'[d].awaited = db[d].awaited
    BY <1>3 DEF DbKept
  <2>2. /\ db[d].awaited \in DOMAIN passes[d]
        /\ Running(d, db[d].awaited) => passes[d][db[d].awaited].cancel
    BY <2>1 DEF AnalysisInv, JoinsExist
  <2> QED BY <2>1, <2>2 DEF PassesKept, Running
<1>4. JoinsExist'
  BY <1>3 DEF JoinsExist, CallersKept
<1> QED BY <1>1, <1>2, <1>4 DEF AnalysisInv

-----------------------------------------------------------------------------
(* The start of a pass *)

LEMMA PassAdded ==
  ASSUME AnalysisInv, NEW d \in Dbs, NEW r, NEW by \in {"wait", "tool", "auto"},
         StartPass(d, r, by)
  PROVE  /\ passes' \in PassType
         /\ \A e \in Dbs : DOMAIN passes[e] \subseteq DOMAIN passes'[e]
         /\ Len(passes[d]) + 1 \in DOMAIN passes'[d]
         /\ \A n \in DOMAIN passes'[d] :
              n # Len(passes[d]) + 1 =>
                n \in DOMAIN passes[d] /\ passes'[d][n] = passes[d][n]
         /\ \A e \in Dbs : e # d => passes'[e] = passes[e]
<1>1. passes[d] \in Seq(PassRec) /\ passes \in PassType
  BY DEF AnalysisInv, TypeOK, PassType
<1>2. NewPass(by) \in PassRec
  BY DEF NewPass, PassRec, PassPCs
<1> DEFINE q == Append(passes[d], NewPass(by))
<1>3. /\ q \in Seq(PassRec)
      /\ Len(q) = Len(passes[d]) + 1
      /\ \A i \in 1 .. Len(passes[d]) : q[i] = passes[d][i]
  BY <1>1, <1>2, AppendProperties
<1>4. passes' = [passes EXCEPT ![d] = q]
  BY DEF StartPass
<1>5. /\ DOMAIN q = 1 .. Len(q)
      /\ DOMAIN passes[d] = 1 .. Len(passes[d])
      /\ Len(passes[d]) \in Nat
  BY <1>1, <1>3
<1> HIDE DEF q
<1>6. passes' \in PassType /\ passes'[d] = q
      /\ \A e \in Dbs : e # d => passes'[e] = passes[e]
  BY <1>1, <1>3, <1>4 DEF PassType
<1> QED BY <1>3, <1>5, <1>6

LEMMA Started ==
  ASSUME AnalysisInv, NEW d \in Dbs, NEW r \in DbRec,
         NEW by \in {"wait", "tool", "auto"},
         StartPass(d, r, by), ~Analyzing(d), CallersKept,
         r.close = "awaitAnalysis" => /\ db[d].close = "awaitAnalysis"
                                      /\ r.awaited = db[d].awaited
  PROVE  AnalysisInv'
<1> DEFINE k == Len(passes[d]) + 1
<1>1. k \in Nat
  BY DEF AnalysisInv, TypeOK
<1>2. [r EXCEPT !.error = FALSE, !.task = k] \in DbRec
  BY <1>1 DEF DbRec
<1>3. /\ db' \in DbType
      /\ db'[d].task = k
      /\ db'[d].close = r.close /\ db'[d].awaited = r.awaited
      /\ \A e \in Dbs : e # d => db'[e] = db[e]
  BY <1>2 DEF AnalysisInv, TypeOK, DbType, StartPass, DbRec
<1>4. \A n \in DOMAIN passes[d] : ~Running(d, n)
  BY DEF AnalysisInv, OneAnalysis, Analyzing
<1> HIDE DEF k
<1>5. TypeOK'
  BY <1>3, PassAdded DEF TypeOK, CallersKept, DbType, PassType, CallerType
<1>6. ASSUME NEW e \in Dbs, NEW n \in DOMAIN passes'[e], Running(e, n)'
      PROVE  db'[e].task = n
  <2>1. CASE e = d
    BY <2>1, <1>3, <1>4, <1>6, PassAdded DEF Running, k
  <2>2. CASE e # d
    BY <2>2, <1>3, <1>6, PassAdded DEF Running, AnalysisInv, OneAnalysis
  <2> QED BY <2>1, <2>2
<1>7. ASSUME NEW e \in Dbs, (db[e].close = "awaitAnalysis")'
      PROVE  /\ (db[e].awaited \in DOMAIN passes[e])'
             /\ (Running(e, db[e].awaited) => passes[e][db[e].awaited].cancel)'
  <2>1. /\ db[e].close = "awaitAnalysis"
        /\ db'[e].awaited = db[e].awaited
    BY <1>3, <1>7
  <2>2. /\ db[e].awaited \in DOMAIN passes[e]
        /\ Running(e, db[e].awaited) => passes[e][db[e].awaited].cancel
    BY <2>1 DEF AnalysisInv, JoinsExist
  <2>3. db[e].awaited \in DOMAIN passes'[e]
    BY <2>2, PassAdded
  <2>4. passes'[e][db[e].awaited] = passes[e][db[e].awaited]
    <3>1. CASE e # d
      BY <3>1, PassAdded
    <3>2. CASE e = d
      <4>1. DOMAIN passes[d] = 1 .. Len(passes[d])
        BY DEF AnalysisInv, TypeOK
      <4>2. db[e].awaited # Len(passes[d]) + 1
        BY <3>2, <2>2, <4>1, <1>1 DEF k
      <4> QED BY <3>2, <4>2, <2>3, PassAdded
    <3> QED BY <3>1, <3>2
  <2> QED BY <2>1, <2>2, <2>3, <2>4 DEF Running
<1>8. JoinsExist'
  BY <1>7 DEF JoinsExist, CallersKept
<1>9. OneAnalysis'
  BY <1>6 DEF OneAnalysis
<1> QED BY <1>5, <1>8, <1>9 DEF AnalysisInv

-----------------------------------------------------------------------------
(* The steps of the spawn task *)

LEMMA InitSafe == Init => AnalysisInv
<1> SUFFICES ASSUME Init PROVE AnalysisInv
  OBVIOUS
<1>1. \A auto \in BOOLEAN : NewDb(auto) \in DbRec
  BY DEF NewDb, DbRec, SpawnPCs, ClosePCs
<1>2. <<>> \in Seq(PassRec) /\ DOMAIN <<>> = {}
  OBVIOUS
<1>3. NewCall("none", {}) \in CallerRec
  BY DEF NewCall, CallerRec, ChildPCs, Answers
<1>4. TypeOK
  BY <1>1, <1>2, <1>3 DEF Init, TypeOK
<1>5. OneAnalysis
  BY <1>2 DEF Init, OneAnalysis
<1>6. JoinsExist
  BY DEF Init, JoinsExist, NewCall, NewDb
<1> QED BY <1>4, <1>5, <1>6 DEF AnalysisInv

\* A step that only updates one worker's record.
LEMMA DbStep ==
  ASSUME AnalysisInv, NEW d \in Dbs, NEW r \in DbRec,
         db' = [db EXCEPT ![d] = r],
         r.task = db[d].task,
         r.close = "awaitAnalysis" => /\ db[d].close = "awaitAnalysis"
                                      /\ r.awaited = db[d].awaited,
         UNCHANGED <<passes, caller>>
  PROVE  AnalysisInv'
<1>1. DbKept
  BY DbSet
<1>2. PassesKept
  BY PassesSame
<1>3. CallersKept
  BY CallersSame
<1> QED BY <1>1, <1>2, <1>3, Kept

LEMMA SpawnSafe ==
  ASSUME AnalysisInv, NEW d \in Dbs, SpawnStep(d)
  PROVE  AnalysisInv'
<1> USE DEF DbRec, SpawnPCs
<1>0. db[d] \in DbRec /\ db \in [Dbs -> DbRec]
  BY DEF AnalysisInv, TypeOK
<1>1. CASE SpawnStart(d)
  <2> DEFINE r == [db[d] EXCEPT !.spawn = "opening"]
  <2>1. r \in DbRec /\ r.task = db[d].task /\ r.close = db[d].close
        /\ r.awaited = db[d].awaited
    BY <1>0
  <2>2. db' = [db EXCEPT ![d] = r] /\ UNCHANGED <<passes, caller>>
    BY <1>0, <1>1 DEF SpawnStart
  <2> HIDE DEF r, DbRec
  <2> QED BY <2>1, <2>2, DbStep
<1>2. CASE SpawnReady(d)
  <2> DEFINE r == [db[d] EXCEPT !.spawn = "done", !.ready = TRUE]
  <2>1. r \in DbRec /\ r.task = db[d].task /\ r.close = db[d].close
        /\ r.awaited = db[d].awaited
    BY <1>0
  <2>2. /\ UNCHANGED caller
        /\ \/ StartPass(d, r, "auto") /\ ~Analyzing(d)
           \/ db' = [db EXCEPT ![d] = r] /\ UNCHANGED passes
    BY <1>2 DEF SpawnReady
  <2> HIDE DEF r, DbRec
  <2>3. CASE StartPass(d, r, "auto") /\ ~Analyzing(d)
    <3>1. CallersKept
      BY <2>2, <2>3, <2>1, PassAdded, CallersSame
    <3> QED BY <2>1, <2>3, <3>1, Started
  <2>4. CASE db' = [db EXCEPT ![d] = r] /\ UNCHANGED passes
    BY <2>1, <2>2, <2>4, DbStep
  <2> QED BY <2>2, <2>3, <2>4
<1>3. CASE SpawnMarkFailed(d)
  <2>1. Failed(db[d]) \in DbRec /\ Failed(db[d]).task = db[d].task
        /\ Failed(db[d]).close = db[d].close
        /\ Failed(db[d]).awaited = db[d].awaited
    BY <1>0 DEF Failed
  <2>2. db' = [db EXCEPT ![d] = Failed(db[d])] /\ UNCHANGED <<passes, caller>>
    BY <1>0, <1>3 DEF SpawnMarkFailed
  <2> HIDE DEF DbRec
  <2> QED BY <2>1, <2>2, DbStep
<1>4. CASE SpawnRemoved(d)
  <2> DEFINE r == [db[d] EXCEPT !.spawn = "done", !.listed = FALSE,
                                !.spawnError = TRUE, !.ready = TRUE]
  <2>1. r \in DbRec /\ r.task = db[d].task /\ r.close = db[d].close
        /\ r.awaited = db[d].awaited
    BY <1>0
  <2>2. db' = [db EXCEPT ![d] = r] /\ UNCHANGED <<passes, caller>>
    BY <1>0, <1>4 DEF SpawnRemoved
  <2> HIDE DEF r, DbRec
  <2> QED BY <2>1, <2>2, DbStep
<1> QED BY <1>1, <1>2, <1>3, <1>4 DEF SpawnStep

-----------------------------------------------------------------------------
(* The steps of a pass *)

\* A step that updates one pass and one worker's record, or only the pass.
LEMMA PassStepKept ==
  ASSUME AnalysisInv, NEW d \in Dbs, NEW n \in DOMAIN passes[d],
         NEW p \in PassRec, PassBecomes(d, n, p),
         p.pc # "done" => passes[d][n].pc # "done",
         passes[d][n].cancel => p.cancel,
         DbKept, UNCHANGED caller
  PROVE  AnalysisInv'
<1>1. PassesKept
  BY PassSet
<1>2. CallersKept
  BY <1>1, CallersSame DEF PassesKept
<1> QED BY <1>1, <1>2, Kept

\* What the code makes of a pass is a pass.
LEMMA PassShapes ==
  ASSUME AnalysisInv, NEW d \in Dbs, NEW n \in DOMAIN passes[d]
  PROVE  /\ passes[d][n] \in PassRec
         /\ \A pc \in PassPCs : [passes[d][n] EXCEPT !.pc = pc] \in PassRec
         /\ \A pc \in PassPCs, result \in {"ok", "error"} :
              [passes[d][n] EXCEPT !.pc = pc, !.result = result] \in PassRec
         /\ \A end \in {"finished", "cancelled"} :
              [passes[d][n] EXCEPT !.pc = "done", !.end = end] \in PassRec
         /\ [passes[d][n] EXCEPT !.cancel = TRUE] \in PassRec
<1>1. passes[d] \in Seq(PassRec)
  BY DEF AnalysisInv, TypeOK
<1>2. passes[d][n] \in PassRec
  BY <1>1, ElementOfSeq
<1> QED BY <1>2 DEF PassRec, PassPCs

\* Any of the ways a pass goes on leaves the invariant to the worker's record.
LEMMA PassMoves ==
  ASSUME AnalysisInv, NEW d \in Dbs, NEW n \in DOMAIN passes[d],
         passes[d][n].pc # "done", DbKept, UNCHANGED caller,
         \/ \E pc \in PassPCs : PassAt(d, n, pc)
         \/ \E pc \in PassPCs, result \in {"ok", "error"} :
              PassHas(d, n, pc, result)
         \/ \E end \in {"finished", "cancelled"} : PassOver(d, n, end)
  PROVE  AnalysisInv'
<1>0. passes[d][n] \in PassRec
  BY PassShapes
<1>1. CASE \E pc \in PassPCs : PassAt(d, n, pc)
  <2> PICK pc \in PassPCs : PassAt(d, n, pc)
    BY <1>1
  <2> DEFINE p == [passes[d][n] EXCEPT !.pc = pc]
  <2>1. p \in PassRec
    BY PassShapes
  <2>2. p.cancel = passes[d][n].cancel
    BY <1>0 DEF PassRec
  <2>3. PassBecomes(d, n, p)
    BY DEF PassAt
  <2> HIDE DEF p
  <2> QED BY <2>1, <2>2, <2>3, PassStepKept
<1>2. CASE \E pc \in PassPCs, result \in {"ok", "error"} : PassHas(d, n, pc, result)
  <2> PICK pc \in PassPCs, result \in {"ok", "error"} : PassHas(d, n, pc, result)
    BY <1>2
  <2> DEFINE p == [passes[d][n] EXCEPT !.pc = pc, !.result = result]
  <2>1. p \in PassRec
    BY PassShapes
  <2>2. p.cancel = passes[d][n].cancel
    BY <1>0 DEF PassRec
  <2>3. PassBecomes(d, n, p)
    BY DEF PassHas
  <2> HIDE DEF p
  <2> QED BY <2>1, <2>2, <2>3, PassStepKept
<1>3. CASE \E end \in {"finished", "cancelled"} : PassOver(d, n, end)
  <2> PICK end \in {"finished", "cancelled"} : PassOver(d, n, end)
    BY <1>3
  <2> DEFINE p == [passes[d][n] EXCEPT !.pc = "done", !.end = end]
  <2>1. p \in PassRec
    BY PassShapes
  <2>2. p.cancel = passes[d][n].cancel
    BY <1>0 DEF PassRec
  <2>3. PassBecomes(d, n, p)
    BY DEF PassOver
  <2> HIDE DEF p
  <2> QED BY <2>1, <2>2, <2>3, PassStepKept
<1> QED BY <1>1, <1>2, <1>3

\* What a pass, or a lost call, makes of a worker's record.
LEMMA RecordShapes ==
  ASSUME AnalysisInv, NEW d \in Dbs, NEW n \in DOMAIN passes[d],
         \/ db' = [db EXCEPT ![d] = Dropped(@)]
         \/ db' = [db EXCEPT ![d] = Lost(@)]
         \/ db' = [db EXCEPT ![d] = WithError(@, n)]
         \/ db' = [db EXCEPT ![d] = WithError(Lost(@), n)]
         \/ db' = [db EXCEPT ![d] = [@ EXCEPT !.last = n, !.analyzed = TRUE,
                                              !.error = FALSE]]
  PROVE  DbKept
<1>0. db[d] \in DbRec /\ db \in [Dbs -> DbRec] /\ n \in Nat
  BY DEF AnalysisInv, TypeOK
<1> DEFINE Good(r) == /\ r \in DbRec
                      /\ r.task = db[d].task
                      /\ r.close = db[d].close
                      /\ r.awaited = db[d].awaited
<1>1. Good(Dropped(db[d]))
  BY <1>0 DEF Dropped, DbRec
<1>2. Good(Lost(db[d]))
  BY <1>0 DEF Lost, Dropped, DbRec
<1>3. Good(WithError(db[d], n))
  BY <1>0 DEF WithError, DbRec
<1>4. Good(WithError(Lost(db[d]), n))
  BY <1>0 DEF WithError, Lost, Dropped, DbRec
<1>5. Good([db[d] EXCEPT !.last = n, !.analyzed = TRUE, !.error = FALSE])
  BY <1>0 DEF DbRec
<1>6. \E r : Good(r) /\ db' = [db EXCEPT ![d] = r]
  BY <1>0, <1>1, <1>2, <1>3, <1>4, <1>5
<1> QED BY <1>6, DbSet

LEMMA PassSafe ==
  ASSUME AnalysisInv, NEW d \in Dbs, NEW n \in DOMAIN passes[d],
         \/ PassStep(d, n)
         \/ PassSucceeds(d, n)
         \/ PassFails(d, n)
         \/ PassLosesWorker(d, n)
         \/ PassRefreshed(d, n)
  PROVE  AnalysisInv'
<1>0. {"calling", "refresh", "losing", "report", "done"} \subseteq PassPCs
  BY DEF PassPCs
<1>1. CASE PassCalls(d, n)
  <2>1. DbKept
    BY <1>1, RecordShapes, DbSame DEF PassCalls
  <2> QED BY <1>0, <1>1, <2>1, PassMoves DEF PassCalls, At
<1>2. CASE PassLost(d, n)
  <2>1. DbKept
    BY <1>2, RecordShapes DEF PassLost
  <2> QED BY <1>0, <1>2, <2>1, PassMoves DEF PassLost, At
<1>3. CASE PassEnds(d, n)
  <2>1. DbKept
    BY <1>3, DbSame DEF PassEnds
  <2> QED BY <1>0, <1>3, <2>1, PassMoves DEF PassEnds, At
<1>4. CASE PassCancelled(d, n)
  <2>1. DbKept
    BY <1>4, DbSame DEF PassCancelled
  <2> QED BY <1>0, <1>4, <2>1, PassMoves DEF PassCancelled, Running
<1>5. CASE PassSucceeds(d, n)
  <2>1. DbKept
    BY <1>5, RecordShapes DEF PassSucceeds
  <2> QED BY <1>0, <1>5, <2>1, PassMoves DEF PassSucceeds, At
<1>6. CASE PassFails(d, n)
  <2>1. DbKept
    BY <1>6, RecordShapes DEF PassFails
  <2> QED BY <1>0, <1>6, <2>1, PassMoves DEF PassFails, At
<1>7. CASE PassLosesWorker(d, n)
  <2>1. DbKept
    BY <1>7, RecordShapes DEF PassLosesWorker
  <2> QED BY <1>0, <1>7, <2>1, PassMoves DEF PassLosesWorker, At
<1>8. CASE PassRefreshed(d, n)
  <2>1. DbKept
    BY <1>8, DbSame DEF PassRefreshed
  <2> QED BY <1>0, <1>8, <2>1, PassMoves DEF PassRefreshed, At
<1> QED BY <1>1, <1>2, <1>3, <1>4, <1>5, <1>6, <1>7, <1>8 DEF PassStep

-----------------------------------------------------------------------------
(* Opening, losing and closing the worker *)

LEMMA WorkerSafe ==
  ASSUME AnalysisInv, NEW d \in Dbs,
         SpawnOpens(d) \/ SpawnFails(d) \/ WorkerDies(d) \/ CallLosesWorker(d)
  PROVE  AnalysisInv'
<1>0. db[d] \in DbRec /\ db \in [Dbs -> DbRec]
  BY DEF AnalysisInv, TypeOK
<1> DEFINE Good(r) == /\ r \in DbRec
                      /\ r.task = db[d].task
                      /\ r.close = db[d].close
                      /\ r.awaited = db[d].awaited
<1>1. ASSUME NEW analyzed \in BOOLEAN
      PROVE  Good([db[d] EXCEPT !.spawn = "logging", !.state = "IDLE",
                    !.connected = TRUE, !.analyzed = analyzed /\ ~db[d].auto])
  BY <1>0 DEF DbRec, SpawnPCs
<1>2. Good([db[d] EXCEPT !.spawn = "failing"])
  BY <1>0 DEF DbRec, SpawnPCs
<1>3. Good([db[d] EXCEPT !.state = "DEAD"])
  BY <1>0 DEF DbRec
<1>4. Good(Lost(db[d]))
  BY <1>0 DEF Lost, Dropped, DbRec
<1>5. UNCHANGED <<passes, caller>>
  BY DEF SpawnOpens, SpawnFails, WorkerDies, CallLosesWorker
<1>6. \E r : Good(r) /\ db' = [db EXCEPT ![d] = r]
  <2>1. CASE SpawnOpens(d)
    <3>1. PICK analyzed \in BOOLEAN :
            db' = [db EXCEPT ![d] = [db[d] EXCEPT !.spawn = "logging",
                     !.state = "IDLE", !.connected = TRUE,
                     !.analyzed = analyzed /\ ~db[d].auto]]
      BY <1>0, <2>1 DEF SpawnOpens
    <3> QED BY <1>1, <3>1
  <2>2. CASE SpawnFails(d)
    <3>1. db' = [db EXCEPT ![d] = [db[d] EXCEPT !.spawn = "failing"]]
      BY <1>0, <2>2 DEF SpawnFails
    <3> QED BY <1>2, <3>1
  <2>3. CASE WorkerDies(d)
    <3>1. db' = [db EXCEPT ![d] = [db[d] EXCEPT !.state = "DEAD"]]
      BY <1>0, <2>3 DEF WorkerDies
    <3> QED BY <1>3, <3>1
  <2>4. CASE CallLosesWorker(d)
    <3>1. db' = [db EXCEPT ![d] = Lost(db[d])]
      BY <1>0, <2>4 DEF CallLosesWorker
    <3> QED BY <1>4, <3>1
  <2> QED BY <2>1, <2>2, <2>3, <2>4
<1> QED BY <1>5, <1>6, DbStep

\* cancel_analysis: a running task is cancelled and awaited; with none running
\* there is none to forget.
LEMMA CancelSafe ==
  ASSUME AnalysisInv, NEW d \in Dbs, NEW r \in DbRec, r.task = db[d].task,
         CancelAnalysis(d, r), UNCHANGED caller
  PROVE  AnalysisInv'
<1>0. db[d] \in DbRec /\ db \in [Dbs -> DbRec]
  BY DEF AnalysisInv, TypeOK
<1>1. CASE Analyzing(d)
  <2> DEFINE n == db[d].task
             q == [r EXCEPT !.close = "awaitAnalysis", !.awaited = r.task]
             p == [passes[d][n] EXCEPT !.cancel = TRUE]
  <2>1. n \in DOMAIN passes[d] /\ passes[d][n].pc # "done"
    BY <1>1 DEF Analyzing, Running
  <2>2. passes[d][n] \in PassRec /\ p \in PassRec
    BY <2>1, PassShapes
  <2>3. p.cancel = TRUE /\ PassBecomes(d, n, p)
    BY <1>1, <2>2 DEF CancelAnalysis, Cancelling, PassRec
  <2>4. /\ q \in DbRec /\ q.task = n /\ q.awaited = n
    BY <1>0 DEF DbRec, ClosePCs
  <2>5. db' = [db EXCEPT ![d] = q]
    BY <1>1 DEF CancelAnalysis
  <2>6. /\ db' \in DbType /\ db'[d] = q
        /\ \A e \in Dbs : e # d => db'[e] = db[e]
    BY <1>0, <2>4, <2>5 DEF DbType
  <2> HIDE DEF n, q, p
  <2>7. PassesKept /\ passes'[d][n] = p
    BY <2>1, <2>2, <2>3, PassSet
  <2>8. CallersKept
    BY <2>7, CallersSame DEF PassesKept
  <2>9. TypeOK'
    BY <2>6, <2>7, <2>8
       DEF TypeOK, PassesKept, CallersKept, DbType, PassType, CallerType
  <2>10. \A e \in Dbs : db'[e].task = db[e].task
    BY <2>4, <2>6 DEF n
  <2>11. OneAnalysis'
    BY <2>7, <2>10 DEF OneAnalysis, AnalysisInv, PassesKept, Running
  <2>12. ASSUME NEW e \in Dbs, (db[e].close = "awaitAnalysis")'
         PROVE  /\ (db[e].awaited \in DOMAIN passes[e])'
                /\ (Running(e, db[e].awaited) => passes[e][db[e].awaited].cancel)'
    <3>1. CASE e = d
      BY <3>1, <2>1, <2>3, <2>4, <2>6, <2>7 DEF PassesKept
    <3>2. CASE e # d
      <4>1. db'[e] = db[e] /\ db[e].close = "awaitAnalysis"
        BY <3>2, <2>6, <2>12
      <4>2. /\ db[e].awaited \in DOMAIN passes[e]
            /\ Running(e, db[e].awaited) => passes[e][db[e].awaited].cancel
        BY <4>1 DEF AnalysisInv, JoinsExist
      <4> QED BY <4>1, <4>2, <2>7 DEF PassesKept, Running
    <3> QED BY <3>1, <3>2
  <2>13. JoinsExist'
    BY <2>8, <2>12 DEF JoinsExist, CallersKept
  <2> QED BY <2>9, <2>11, <2>13 DEF AnalysisInv
<1>2. CASE ~Analyzing(d)
  <2> DEFINE q == [r EXCEPT !.close = "saving", !.task = 0]
  <2>1. q \in DbRec /\ q.close = "saving"
    BY DEF DbRec, ClosePCs
  <2>2. db' = [db EXCEPT ![d] = q] /\ UNCHANGED passes
    BY <1>2 DEF CancelAnalysis
  <2>3. /\ db' \in DbType /\ db'[d] = q
        /\ \A e \in Dbs : e # d => db'[e] = db[e]
    BY <1>0, <2>1, <2>2 DEF DbType
  <2> HIDE DEF q
  <2>4. PassesKept /\ CallersKept
    BY <2>2, PassesSame, CallersSame
  <2>5. TypeOK'
    BY <2>3, <2>4
       DEF TypeOK, PassesKept, CallersKept, DbType, PassType, CallerType
  <2>6. OneAnalysis'
    BY <1>2, <2>2, <2>3 DEF OneAnalysis, AnalysisInv, Running, Analyzing
  <2>7. JoinsExist'
    BY <2>1, <2>2, <2>3, <2>4 DEF JoinsExist, CallersKept, AnalysisInv, Running
  <2> QED BY <2>5, <2>6, <2>7 DEF AnalysisInv
<1> QED BY <1>1, <1>2

LEMMA CloseSafe ==
  ASSUME AnalysisInv, NEW d \in Dbs, Close(d) \/ CloseStep(d)
  PROVE  AnalysisInv'
<1>0. db[d] \in DbRec /\ db \in [Dbs -> DbRec]
  BY DEF AnalysisInv, TypeOK
<1>1. CASE Close(d)
  <2> DEFINE r == [db[d] EXCEPT !.listed = FALSE]
             q == [CancelSpawn(r) EXCEPT !.close = "awaitSpawn"]
  <2>1. r \in DbRec /\ r.task = db[d].task
    BY <1>0 DEF DbRec
  <2>2. /\ UNCHANGED caller
        /\ \/ CancelAnalysis(d, r)
           \/ db' = [db EXCEPT ![d] = q] /\ UNCHANGED passes
    BY <1>1 DEF Close
  <2>3. q \in DbRec /\ q.task = db[d].task /\ q.close = "awaitSpawn"
    BY <1>0, <2>1 DEF CancelSpawn, DbRec, SpawnPCs, ClosePCs
  <2> HIDE DEF r, q
  <2>4. CASE CancelAnalysis(d, r)
    BY <2>1, <2>2, <2>4, CancelSafe
  <2>5. CASE db' = [db EXCEPT ![d] = q] /\ UNCHANGED passes
    BY <2>2, <2>3, <2>5, DbStep
  <2> QED BY <2>2, <2>4, <2>5
<1>2. CASE CloseSpawnOver(d)
  BY <1>0, <1>2, CancelSafe DEF CloseSpawnOver
<1>3. CASE CloseAnalysisOver(d)
  <2> DEFINE q == [Forgotten(db[d]) EXCEPT !.close = "saving", !.awaited = 0]
  <2>1. /\ q \in DbRec /\ q.close = "saving"
        /\ q.task = IF db[d].task = db[d].awaited THEN 0 ELSE db[d].task
    BY <1>0 DEF Forgotten, DbRec, ClosePCs
  <2>2. db' = [db EXCEPT ![d] = q] /\ UNCHANGED <<passes, caller>>
    BY <1>0, <1>3 DEF CloseAnalysisOver
  <2>3. /\ db' \in DbType /\ db'[d] = q
        /\ \A e \in Dbs : e # d => db'[e] = db[e]
    BY <1>0, <2>1, <2>2 DEF DbType
  <2> HIDE DEF q
  <2>4. PassesKept /\ CallersKept
    BY <2>2, PassesSame, CallersSame
  <2>5. TypeOK'
    BY <2>3, <2>4
       DEF TypeOK, PassesKept, CallersKept, DbType, PassType, CallerType
  <2>6. ~Running(d, db[d].awaited)
    BY <1>3 DEF CloseAnalysisOver
  <2>7. OneAnalysis'
    BY <2>1, <2>2, <2>3, <2>6 DEF OneAnalysis, AnalysisInv, Running
  <2>8. JoinsExist'
    BY <2>1, <2>2, <2>3, <2>4 DEF JoinsExist, CallersKept, AnalysisInv, Running
  <2> QED BY <2>5, <2>7, <2>8 DEF AnalysisInv
<1>4. CASE CloseEnds(d)
  <2> DEFINE q == [db[d] EXCEPT !.close = "closed", !.state = "DEAD",
                                !.connected = FALSE]
  <2>1. q \in DbRec /\ q.task = db[d].task /\ q.close = "closed"
    BY <1>0 DEF DbRec, ClosePCs
  <2>2. db' = [db EXCEPT ![d] = q] /\ UNCHANGED <<passes, caller>>
    BY <1>0, <1>4 DEF CloseEnds
  <2> HIDE DEF q
  <2> QED BY <2>1, <2>2, DbStep
<1> QED BY <1>1, <1>2, <1>3, <1>4 DEF CloseStep

-----------------------------------------------------------------------------
(* The requests *)

\* A request's record of which every join is of a pass that exists.
Fine(r) ==
  /\ r \in CallerRec
  /\ \A d \in Dbs : r.child[d] = "joining" => r.on[d] \in DOMAIN passes[d]

LEMMA CallersFine ==
  ASSUME AnalysisInv, NEW c \in Callers PROVE Fine(caller[c])
BY DEF AnalysisInv, TypeOK, JoinsExist, Fine

LEMMA NewCallFine ==
  ASSUME NEW op \in {"wait", "multi", "analyze"}, NEW D \in SUBSET Dbs
  PROVE  Fine(NewCall(op, D))
BY DEF Fine, NewCall, CallerRec, ChildPCs, Answers

LEMMA ReplyFine ==
  ASSUME NEW r, Fine(r), NEW answer \in Answers, NEW got \in Nat
  PROVE  Fine(Reply(r, answer, got))
<1>1. [d \in Dbs |-> "none"] \in [Dbs -> ChildPCs]
  BY DEF ChildPCs
<1>2. r \in CallerRec
  BY DEF Fine
<1>3. Reply(r, answer, got) \in CallerRec
  BY <1>1, <1>2 DEF Reply, CallerRec
<1>4. \A d \in Dbs : Reply(r, answer, got).child[d] = "none"
  BY <1>2 DEF Reply, CallerRec
<1> QED BY <1>3, <1>4 DEF Fine

LEMMA ChildFine ==
  ASSUME NEW r, Fine(r), NEW d \in Dbs, NEW pc \in {"opening", "done"}
  PROVE  Fine([r EXCEPT !.child[d] = pc])
<1> DEFINE q == [r EXCEPT !.child[d] = pc]
<1>1. r \in CallerRec
  BY DEF Fine
<1>2. /\ q \in CallerRec
      /\ q.child[d] = pc /\ q.on = r.on
      /\ \A e \in Dbs : e # d => q.child[e] = r.child[e]
  BY <1>1 DEF CallerRec, ChildPCs
<1> QED BY <1>2 DEF Fine

LEMMA JoinedShape ==
  ASSUME NEW r, Fine(r), NEW d \in Dbs, NEW n \in Nat
  PROVE  /\ Joined(r, d, n) \in CallerRec
         /\ Joined(r, d, n).on[d] = n
         /\ \A e \in Dbs : e # d => /\ Joined(r, d, n).child[e] = r.child[e]
                                    /\ Joined(r, d, n).on[e] = r.on[e]
BY DEF Fine, Joined, CallerRec, ChildPCs

LEMMA ReleasedFine ==
  ASSUME NEW r, Fine(r), NEW d \in Dbs PROVE Fine(Released(r, d))
<1>1. {"analysisFailed", "ready"} \subseteq Answers /\ 0 \in Nat
  BY DEF Answers
<1> QED BY <1>1, ReplyFine, ChildFine DEF Released

\* A step that only changes one request's record.
LEMMA CallerOnly ==
  ASSUME AnalysisInv, NEW c \in Callers, NEW r, Fine(r), Becomes(c, r),
         UNCHANGED <<db, passes>>
  PROVE  AnalysisInv'
<1>1. PassesKept /\ DbKept
  BY PassesSame, DbSame
<1>2. CallersKept
  BY CallerSet DEF Fine
<1> QED BY <1>1, <1>2, Kept

LEMMA JoinsRunning ==
  ASSUME AnalysisInv, NEW c \in Callers, NEW r, Fine(r), NEW d \in Dbs,
         Analyzing(d), Becomes(c, Joined(r, d, db[d].task)),
         UNCHANGED <<db, passes>>
  PROVE  AnalysisInv'
<1>1. db[d].task \in DOMAIN passes[d] /\ db[d].task \in Nat
  BY DEF Analyzing, Running, AnalysisInv, TypeOK, DbRec
<1>2. Fine(Joined(r, d, db[d].task))
  BY <1>1, JoinedShape DEF Fine
<1> QED BY <1>2, CallerOnly

LEMMA StartsAndJoins ==
  ASSUME AnalysisInv, NEW c \in Callers, NEW r, Fine(r), NEW d \in Dbs,
         NEW by \in {"wait", "tool"}, ~Analyzing(d), StartPass(d, db[d], by),
         Becomes(c, Joined(r, d, Len(passes[d]) + 1))
  PROVE  AnalysisInv'
<1> DEFINE k == Len(passes[d]) + 1
           q == Joined(r, d, k)
<1>1. k \in Nat /\ db[d] \in DbRec
  BY DEF AnalysisInv, TypeOK
<1>2. /\ \A e \in Dbs : DOMAIN passes[e] \subseteq DOMAIN passes'[e]
      /\ k \in DOMAIN passes'[d]
  BY PassAdded
<1>3. q \in CallerRec
      /\ \A e \in Dbs : q.child[e] = "joining" => q.on[e] \in DOMAIN passes'[e]
  BY <1>1, <1>2, JoinedShape DEF Fine
<1>4. Becomes(c, q)
  OBVIOUS
<1> HIDE DEF q
<1>5. CallersKept
  BY <1>2, <1>3, <1>4, CallerSet
<1> QED BY <1>1, <1>5, Started

LEMMA AwaitAnalysisSafe ==
  ASSUME AnalysisInv, NEW c \in Callers, NEW r, Fine(r), NEW d \in Dbs,
         AwaitAnalysis(c, r, d)
  PROVE  AnalysisInv'
<1>1. Fine(Reply(r, "spawnFailed", 0)) /\ Fine([r EXCEPT !.child[d] = "done"])
      /\ Fine(Released(r, d))
  BY ReplyFine, ChildFine, ReleasedFine DEF Answers
<1>2. CASE /\ Becomes(c, IF r.op = "multi" THEN [r EXCEPT !.child[d] = "done"]
                         ELSE Reply(r, "spawnFailed", 0))
           /\ UNCHANGED <<db, passes>>
  BY <1>1, <1>2, CallerOnly
<1>3. CASE /\ NeedsAnalysis(d)
           /\ StartPass(d, db[d], "wait")
           /\ Becomes(c, Joined(r, d, Len(passes[d]) + 1))
  BY <1>3, StartsAndJoins DEF NeedsAnalysis
<1>4. CASE /\ Becomes(c, IF Analyzing(d) THEN Joined(r, d, db[d].task)
                         ELSE Released(r, d))
           /\ UNCHANGED <<db, passes>>
  BY <1>1, <1>4, CallerOnly, JoinsRunning
<1> QED BY <1>2, <1>3, <1>4 DEF AwaitAnalysis

LEMMA AwaitOpenSafe ==
  ASSUME AnalysisInv, NEW c \in Callers, NEW r, Fine(r), NEW d \in Dbs,
         AwaitOpen(c, r, d)
  PROVE  AnalysisInv'
<1>1. Fine([r EXCEPT !.child[d] = "opening"])
  BY ChildFine
<1> QED BY <1>1, CallerOnly, AwaitAnalysisSafe DEF AwaitOpen

LEMMA JoinEndsSafe ==
  ASSUME AnalysisInv, NEW c \in Callers, NEW d \in Dbs, JoinEnds(c, d)
  PROVE  AnalysisInv'
<1> DEFINE r == caller[c]
<1>1. Fine(r) /\ db[d].last \in Nat
  BY CallersFine DEF AnalysisInv, TypeOK, DbRec
<1>2. \A a \in Answers : Fine(Reply(r, a, 0)) /\ Fine(Reply(r, a, db[d].last))
  BY <1>1, ReplyFine
<1>3. Fine([r EXCEPT !.child[d] = "done"]) /\ Fine(Released(r, d))
  BY <1>1, ChildFine, ReleasedFine
<1>4. {"cancelled", "analysisFailed", "noResult", "result"} \subseteq Answers
  BY DEF Answers
<1>5. \E q : Fine(q) /\ Becomes(c, q)
  BY <1>2, <1>3, <1>4 DEF JoinEnds
<1>6. UNCHANGED <<db, passes>>
  BY DEF JoinEnds
<1> QED BY <1>5, <1>6, CallerOnly

LEMMA CallsSafe ==
  ASSUME AnalysisInv, NEW c \in Callers, Calls(c) \/ CallerStep(c)
  PROVE  AnalysisInv'
<1>1. ASSUME NEW d \in Dbs, Wait(c, d) PROVE AnalysisInv'
  <2>1. Fine(NewCall("wait", {d}))
    BY NewCallFine
  <2> QED BY <1>1, <2>1, AwaitOpenSafe DEF Wait
<1>2. ASSUME NEW d \in Dbs, RunAnalysis(c, d) PROVE AnalysisInv'
  <2>1. Fine(NewCall("analyze", {d}))
    BY NewCallFine
  <2> QED BY <1>2, <2>1, JoinsRunning, StartsAndJoins DEF RunAnalysis
<1>3. ASSUME NEW D \in SUBSET Dbs, WaitMulti(c, D) PROVE AnalysisInv'
  <2> DEFINE f == [d \in Dbs |-> IF d \in D THEN "start" ELSE "none"]
             q == [NewCall("multi", D) EXCEPT !.child = f]
  <2>1. NewCall("multi", D) \in CallerRec
    BY NewCallFine DEF Fine
  <2>2. f \in [Dbs -> ChildPCs] /\ \A d \in Dbs : f[d] # "joining"
    BY DEF ChildPCs
  <2> HIDE DEF f
  <2>3. Fine(q)
    BY <2>1, <2>2 DEF Fine, CallerRec
  <2>4. Becomes(c, q) /\ UNCHANGED <<db, passes>>
    BY <1>3 DEF WaitMulti, f
  <2> QED BY <2>3, <2>4, CallerOnly
<1>4. CASE CancelCall(c)
  <2>1. Fine(Reply(caller[c], "withdrawn", 0))
    BY CallersFine, ReplyFine DEF Answers
  <2> QED BY <1>4, <2>1, CallerOnly DEF CancelCall, Withdrawn
<1>5. ASSUME NEW d \in Dbs, ChildStarts(c, d) PROVE AnalysisInv'
  BY <1>5, CallersFine, AwaitOpenSafe DEF ChildStarts
<1>6. ASSUME NEW d \in Dbs, OpenAwaited(c, d) PROVE AnalysisInv'
  BY <1>6, CallersFine, AwaitAnalysisSafe DEF OpenAwaited
<1>7. CASE MultiAnswers(c)
  <2>1. \A a \in {"ready", "failed", "pending"} : Fine(Reply(caller[c], a, 0))
    BY CallersFine, ReplyFine DEF Answers
  <2> QED BY <1>7, <2>1, CallerOnly DEF MultiAnswers
<1> QED BY <1>1, <1>2, <1>3, <1>4, <1>5, <1>6, <1>7, JoinEndsSafe
        DEF Calls, CallerStep

-----------------------------------------------------------------------------
LEMMA NextSafe == AnalysisInv /\ [Next]_vars => AnalysisInv'
<1> SUFFICES ASSUME AnalysisInv, [Next]_vars PROVE AnalysisInv'
  OBVIOUS
<1>1. CASE UNCHANGED vars
  <2>1. PassesKept /\ DbKept /\ CallersKept
    BY <1>1, PassesSame, DbSame, CallersSame DEF vars
  <2> QED BY <2>1, Kept
<1>2. ASSUME NEW d \in Dbs, WorkerAnswers(d) PROVE AnalysisInv'
  BY <1>2, WorkerSafe, PassSafe DEF WorkerAnswers
<1> QED BY <1>1, <1>2, SpawnSafe, PassSafe, CloseSafe, CallsSafe DEF Next

\* Every variable keeps its type; a worker has at most one running analysis, which
\* is its _analysis_task (Worker.start_analysis, cancel_analysis); whoever joins
\* an analysis joins one that exists.
THEOREM AnalysisInvariant == Spec => []AnalysisInv
BY InitSafe, NextSafe, PTL DEF Spec

\* No analysis of a worker runs beside another or out of reach of those who
\* would join or cancel it.
THEOREM OneAnalysisAtATime == Spec => []OneAnalysis
<1>1. AnalysisInv => OneAnalysis
  BY DEF AnalysisInv
<1> QED BY <1>1, AnalysisInvariant, PTL

-----------------------------------------------------------------------------
(* What a withdrawn request leaves, and what a waiting one hears *)

\* A worker that is closed stays so, and one that was ready too; a pass is only
\* cancelled when its worker is being closed.
Grows ==
  \A d \in Dbs : /\ db[d].ready => db'[d].ready
                 /\ db[d].close # "no" => db'[d].close # "no"
CancelledByClose ==
  \A d \in Dbs : \A n \in DOMAIN passes'[d] :
    passes'[d][n].cancel => \/ n \in DOMAIN passes[d] /\ passes[d][n].cancel
                            \/ db'[d].close # "no"

LEMMA RecordGrows ==
  ASSUME AnalysisInv, NEW d \in Dbs, NEW r, db' = [db EXCEPT ![d] = r],
         db[d].ready => r.ready, db[d].close # "no" => r.close # "no"
  PROVE  Grows
BY DEF AnalysisInv, TypeOK, Grows

LEMMA SameGrows == ASSUME UNCHANGED db PROVE Grows
BY DEF Grows

LEMMA SamePasses == ASSUME UNCHANGED passes PROVE CancelledByClose
BY DEF CancelledByClose

\* A pass that moves keeps its cancellation.
LEMMA PassKeepsCancel ==
  ASSUME AnalysisInv, NEW d \in Dbs, NEW n \in DOMAIN passes[d], NEW p,
         PassBecomes(d, n, p),
         p.cancel => passes[d][n].cancel \/ db'[d].close # "no"
  PROVE  CancelledByClose
<1>1. passes[d] \in Seq(PassRec) /\ passes \in [Dbs -> Seq(PassRec)]
  BY DEF AnalysisInv, TypeOK
<1>2. /\ \A e \in Dbs : e # d => passes'[e] = passes[e]
      /\ passes'[d] = [passes[d] EXCEPT ![n] = p]
  BY <1>1 DEF PassBecomes
<1>3. /\ DOMAIN passes'[d] = DOMAIN passes[d]
      /\ \A m \in DOMAIN passes[d] :
           passes'[d][m] = IF m = n THEN p ELSE passes[d][m]
  BY <1>1, <1>2
<1> QED BY <1>2, <1>3 DEF CancelledByClose

\* A pass that starts is not cancelled.
LEMMA NewPassLives ==
  ASSUME AnalysisInv, NEW d \in Dbs, NEW r, NEW by \in {"wait", "tool", "auto"},
         StartPass(d, r, by)
  PROVE  CancelledByClose
<1>1. passes[d] \in Seq(PassRec) /\ passes \in [Dbs -> Seq(PassRec)]
  BY DEF AnalysisInv, TypeOK
<1>2. /\ \A e \in Dbs : e # d => passes'[e] = passes[e]
      /\ passes'[d] = Append(passes[d], NewPass(by))
  BY <1>1 DEF StartPass
<1>3. /\ DOMAIN passes[d] = 1 .. Len(passes[d]) /\ Len(passes[d]) \in Nat
      /\ DOMAIN passes'[d] = 1 .. (Len(passes[d]) + 1)
      /\ \A m \in DOMAIN passes'[d] :
           passes'[d][m] = IF m = Len(passes[d]) + 1 THEN NewPass(by) ELSE passes[d][m]
  BY <1>1, <1>2 DEF NewPass, PassRec
<1>4. ~NewPass(by).cancel
  BY DEF NewPass
<1>5. \A m \in DOMAIN passes'[d] : m # Len(passes[d]) + 1 => m \in DOMAIN passes[d]
  BY <1>3
<1> QED BY <1>2, <1>3, <1>4, <1>5 DEF CancelledByClose

LEMMA SpawnGrows ==
  ASSUME AnalysisInv, NEW d \in Dbs,
         SpawnStep(d) \/ SpawnOpens(d) \/ SpawnFails(d)
  PROVE  Grows /\ CancelledByClose
<1>0. db[d] \in DbRec
  BY DEF AnalysisInv, TypeOK
<1>1. CASE SpawnReady(d)
  <2> DEFINE r == [db[d] EXCEPT !.spawn = "done", !.ready = TRUE]
  <2>1. r.ready /\ r.close = db[d].close
    BY <1>0 DEF DbRec
  <2>2. CASE StartPass(d, r, "auto")
    <3> DEFINE q == [r EXCEPT !.error = FALSE, !.task = Len(passes[d]) + 1]
    <3>1. db' = [db EXCEPT ![d] = q] /\ q.ready = r.ready /\ q.close = r.close
      BY <1>0, <2>2 DEF StartPass, DbRec
    <3> QED BY <2>1, <2>2, <3>1, RecordGrows, NewPassLives
  <2>3. CASE db' = [db EXCEPT ![d] = r] /\ UNCHANGED passes
    BY <2>1, <2>3, RecordGrows, SamePasses
  <2> QED BY <1>1, <2>2, <2>3 DEF SpawnReady
<1>2. CASE SpawnStart(d) \/ SpawnFails(d)
  <2>1. PICK s \in {"opening", "failing"} : db' = [db EXCEPT ![d] = [db[d] EXCEPT !.spawn = s]]
    BY <1>2 DEF SpawnStart, SpawnFails
  <2>2. /\ [db[d] EXCEPT !.spawn = s].ready = db[d].ready
        /\ [db[d] EXCEPT !.spawn = s].close = db[d].close
    BY <1>0 DEF DbRec
  <2> QED BY <1>2, <2>1, <2>2, RecordGrows, SamePasses DEF SpawnStart, SpawnFails
<1>3. CASE SpawnOpens(d)
  <2>1. PICK analyzed \in BOOLEAN :
          db' = [db EXCEPT ![d] = [db[d] EXCEPT !.spawn = "logging", !.state = "IDLE",
                   !.connected = TRUE, !.analyzed = analyzed /\ ~db[d].auto]]
    BY <1>0, <1>3 DEF SpawnOpens
  <2> DEFINE r == [db[d] EXCEPT !.spawn = "logging", !.state = "IDLE",
                     !.connected = TRUE, !.analyzed = analyzed /\ ~db[d].auto]
  <2>2. r.ready = db[d].ready /\ r.close = db[d].close
    BY <1>0 DEF DbRec
  <2>3. db' = [db EXCEPT ![d] = r]
    BY <2>1
  <2>4. UNCHANGED passes
    BY <1>3 DEF SpawnOpens
  <2> HIDE DEF r
  <2> QED BY <2>2, <2>3, <2>4, RecordGrows, SamePasses
<1>4. CASE SpawnMarkFailed(d)
  <2>1. Failed(db[d]).ready /\ Failed(db[d]).close = db[d].close
    BY <1>0 DEF DbRec, Failed
  <2> QED BY <1>4, <2>1, RecordGrows, SamePasses DEF SpawnMarkFailed
<1>5. CASE SpawnRemoved(d)
  <2> DEFINE r == [db[d] EXCEPT !.spawn = "done", !.listed = FALSE,
                                !.spawnError = TRUE, !.ready = TRUE]
  <2>1. r.ready /\ r.close = db[d].close
    BY <1>0 DEF DbRec
  <2> QED BY <1>5, <2>1, RecordGrows, SamePasses DEF SpawnRemoved
<1> QED BY <1>1, <1>2, <1>3, <1>4, <1>5 DEF SpawnStep

\* What the steps of a pass write into the worker.
LEMMA ShapesGrow ==
  ASSUME AnalysisInv, NEW d \in Dbs, NEW n \in DOMAIN passes[d],
         \/ db' = [db EXCEPT ![d] = Dropped(@)]
         \/ db' = [db EXCEPT ![d] = Lost(@)]
         \/ db' = [db EXCEPT ![d] = WithError(@, n)]
         \/ db' = [db EXCEPT ![d] = WithError(Lost(@), n)]
         \/ db' = [db EXCEPT ![d] = [@ EXCEPT !.last = n, !.analyzed = TRUE,
                                              !.error = FALSE]]
         \/ UNCHANGED db
  PROVE  Grows
<1>1. db[d] \in DbRec
  BY DEF AnalysisInv, TypeOK
<1>2. /\ Dropped(db[d]).ready = db[d].ready /\ Dropped(db[d]).close = db[d].close
      /\ Lost(db[d]).ready = db[d].ready /\ Lost(db[d]).close = db[d].close
      /\ WithError(db[d], n).ready = db[d].ready /\ WithError(db[d], n).close = db[d].close
      /\ WithError(Lost(db[d]), n).ready = db[d].ready
      /\ WithError(Lost(db[d]), n).close = db[d].close
  BY <1>1 DEF DbRec, Dropped, Lost, WithError
<1> DEFINE r == [db[d] EXCEPT !.last = n, !.analyzed = TRUE, !.error = FALSE]
<1>3. r.ready = db[d].ready /\ r.close = db[d].close
  BY <1>1 DEF DbRec
<1>4. CASE UNCHANGED db
  BY <1>4, SameGrows
<1>5. CASE db' = [db EXCEPT ![d] = r]
  BY <1>3, <1>5, RecordGrows
<1> QED BY <1>2, <1>4, <1>5, RecordGrows

LEMMA PassGrows ==
  ASSUME AnalysisInv, NEW d \in Dbs, NEW n \in DOMAIN passes[d],
         \/ PassStep(d, n)
         \/ PassSucceeds(d, n)
         \/ PassFails(d, n)
         \/ PassLosesWorker(d, n)
         \/ PassRefreshed(d, n)
  PROVE  Grows /\ CancelledByClose
<1>1. passes[d][n] \in PassRec
  BY DEF AnalysisInv, TypeOK
<1>2. Grows
  <2>1. CASE PassCalls(d, n) \/ PassLost(d, n)
    BY <2>1, ShapesGrow DEF PassCalls, PassLost
  <2>2. CASE PassEnds(d, n) \/ PassCancelled(d, n) \/ PassRefreshed(d, n)
    BY <2>2, SameGrows DEF PassEnds, PassCancelled, PassRefreshed
  <2>3. CASE PassSucceeds(d, n)
    BY <2>3, ShapesGrow DEF PassSucceeds
  <2>4. CASE PassFails(d, n) \/ PassLosesWorker(d, n)
    BY <2>4, ShapesGrow DEF PassFails, PassLosesWorker
  <2> QED BY <2>1, <2>2, <2>3, <2>4 DEF PassStep
<1>3. \A pc, x : /\ [passes[d][n] EXCEPT !.pc = pc].cancel = passes[d][n].cancel
                 /\ [passes[d][n] EXCEPT !.pc = pc, !.result = x].cancel = passes[d][n].cancel
                 /\ [passes[d][n] EXCEPT !.pc = pc, !.end = x].cancel = passes[d][n].cancel
  BY <1>1 DEF PassRec
<1>4. ASSUME NEW pc, NEW x, PassAt(d, n, pc) \/ PassHas(d, n, pc, x) \/ PassOver(d, n, x)
      PROVE  CancelledByClose
  BY <1>3, <1>4, PassKeepsCancel DEF PassAt, PassHas, PassOver
<1>5. \E pc, x : PassAt(d, n, pc) \/ PassHas(d, n, pc, x) \/ PassOver(d, n, x)
  BY DEF PassStep, PassCalls, PassLost, PassEnds, PassCancelled, PassSucceeds,
     PassFails, PassLosesWorker, PassRefreshed
<1> QED BY <1>2, <1>4, <1>5

LEMMA CancelGrows ==
  ASSUME AnalysisInv, NEW d \in Dbs, NEW r \in DbRec, db[d].ready => r.ready,
         CancelAnalysis(d, r)
  PROVE  Grows /\ CancelledByClose
<1>1. db \in [Dbs -> DbRec]
  BY DEF AnalysisInv, TypeOK
<1>2. CASE Analyzing(d)
  <2> DEFINE q == [r EXCEPT !.close = "awaitAnalysis", !.awaited = r.task]
             n == db[d].task
  <2>1. db' = [db EXCEPT ![d] = q] /\ q.ready = r.ready /\ q.close = "awaitAnalysis"
    BY <1>2 DEF CancelAnalysis, DbRec
  <2>2. db'[d].close # "no"
    BY <1>1, <2>1
  <2>3. Cancelling(d, r.task)
    BY <1>2 DEF CancelAnalysis
  <2>4. ASSUME NEW m, m = r.task PROVE CancelledByClose
    <3>1. passes \in [Dbs -> Seq(PassRec)] /\ passes[d] \in Seq(PassRec)
      BY DEF AnalysisInv, TypeOK
    <3>2. /\ \A e \in Dbs : e # d => passes'[e] = passes[e]
          /\ DOMAIN passes'[d] = DOMAIN passes[d]
      BY <3>1, <2>3 DEF Cancelling, PassBecomes
    <3> QED BY <2>2, <3>2 DEF CancelledByClose
  <2> QED BY <2>1, <2>4, RecordGrows
<1>3. CASE ~Analyzing(d)
  <2> DEFINE q == [r EXCEPT !.close = "saving", !.task = 0]
  <2>1. db' = [db EXCEPT ![d] = q] /\ q.ready = r.ready /\ q.close = "saving"
    BY <1>3 DEF CancelAnalysis, DbRec
  <2> QED BY <1>3, <2>1, RecordGrows, SamePasses DEF CancelAnalysis
<1> QED BY <1>2, <1>3

LEMMA CloseGrows ==
  ASSUME AnalysisInv, NEW d \in Dbs, Close(d) \/ CloseStep(d)
  PROVE  Grows /\ CancelledByClose
<1>0. db[d] \in DbRec
  BY DEF AnalysisInv, TypeOK
<1>1. CASE Close(d)
  <2> DEFINE r == [db[d] EXCEPT !.listed = FALSE]
             q == [CancelSpawn(r) EXCEPT !.close = "awaitSpawn"]
  <2>1. r \in DbRec /\ r.ready = db[d].ready
    BY <1>0 DEF DbRec
  <2>2. q.ready = db[d].ready /\ q.close = "awaitSpawn"
    BY <1>0 DEF DbRec, CancelSpawn
  <2>3. CASE CancelAnalysis(d, r)
    BY <2>1, <2>3, CancelGrows
  <2>4. CASE db' = [db EXCEPT ![d] = q] /\ UNCHANGED passes
    BY <2>2, <2>4, RecordGrows, SamePasses
  <2> QED BY <1>1, <2>3, <2>4 DEF Close
<1>2. CASE CloseSpawnOver(d)
  BY <1>0, <1>2, CancelGrows DEF CloseSpawnOver
<1>3. CASE CloseAnalysisOver(d)
  <2> DEFINE q == [Forgotten(db[d]) EXCEPT !.close = "saving", !.awaited = 0]
  <2>1. q.ready = db[d].ready /\ q.close = "saving"
    BY <1>0 DEF DbRec, Forgotten
  <2> QED BY <1>3, <2>1, RecordGrows, SamePasses DEF CloseAnalysisOver
<1>4. CASE CloseEnds(d)
  <2> DEFINE q == [db[d] EXCEPT !.close = "closed", !.state = "DEAD", !.connected = FALSE]
  <2>1. q.ready = db[d].ready /\ q.close = "closed"
    BY <1>0 DEF DbRec
  <2> QED BY <1>4, <2>1, RecordGrows, SamePasses DEF CloseEnds
<1> QED BY <1>1, <1>2, <1>3, <1>4 DEF CloseStep

LEMMA DeathGrows ==
  ASSUME AnalysisInv, NEW d \in Dbs, WorkerDies(d) \/ CallLosesWorker(d)
  PROVE  Grows /\ CancelledByClose
<1>0. db[d] \in DbRec
  BY DEF AnalysisInv, TypeOK
<1>1. /\ [db[d] EXCEPT !.state = "DEAD"].ready = db[d].ready
      /\ [db[d] EXCEPT !.state = "DEAD"].close = db[d].close
      /\ Lost(db[d]).ready = db[d].ready /\ Lost(db[d]).close = db[d].close
  BY <1>0 DEF DbRec, Dropped, Lost
<1>2. CASE WorkerDies(d)
  BY <1>1, <1>2, RecordGrows, SamePasses DEF WorkerDies
<1>3. CASE CallLosesWorker(d)
  BY <1>1, <1>3, RecordGrows, SamePasses DEF CallLosesWorker
<1> QED BY <1>2, <1>3

\* A request starts a pass or leaves the workers as they are.
LEMMA StartGrows ==
  ASSUME AnalysisInv, NEW d \in Dbs, NEW by \in {"wait", "tool"}, StartPass(d, db[d], by)
  PROVE  Grows /\ CancelledByClose
<1>0. db[d] \in DbRec
  BY DEF AnalysisInv, TypeOK
<1> DEFINE q == [db[d] EXCEPT !.error = FALSE, !.task = Len(passes[d]) + 1]
<1>1. db' = [db EXCEPT ![d] = q] /\ q.ready = db[d].ready /\ q.close = db[d].close
  BY <1>0 DEF StartPass, DbRec
<1> QED BY <1>1, RecordGrows, NewPassLives

LEMMA CallsGrow ==
  ASSUME AnalysisInv, NEW c \in Callers, Calls(c) \/ CallerStep(c)
  PROVE  Grows /\ CancelledByClose
<1>1. \/ UNCHANGED <<db, passes>>
      \/ \E d \in Dbs, by \in {"wait", "tool"} : StartPass(d, db[d], by)
  BY DEF Calls, CallerStep, Wait, WaitMulti, RunAnalysis, CancelCall, Withdrawn, ChildStarts,
     OpenAwaited, JoinEnds, MultiAnswers, AwaitOpen, AwaitAnalysis
<1> QED BY <1>1, StartGrows, SameGrows, SamePasses

LEMMA NextGrows ==
  ASSUME AnalysisInv, [Next]_vars PROVE Grows /\ CancelledByClose
<1>1. CASE UNCHANGED vars
  BY <1>1, SameGrows, SamePasses DEF vars
<1>2. ASSUME NEW d \in Dbs, WorkerAnswers(d) PROVE Grows /\ CancelledByClose
  BY <1>2, SpawnGrows, DeathGrows, PassGrows DEF WorkerAnswers
<1> QED BY <1>1, <1>2, SpawnGrows, PassGrows, CloseGrows, CallsGrow DEF Next

\* Withdrawing a request that waits for an analysis, or timing it out, leaves the
\* analysis to the others (asyncio.shield): only a close of the worker cancels
\* one, for every number of databases, requests and passes.
THEOREM OnlyCloseCancels == Spec => []OnlyCloseCancelsAnalysis
<1>1. Init => OnlyCloseCancelsAnalysis
  <2>1. DOMAIN <<>> = {}
    OBVIOUS
  <2> QED BY <2>1 DEF Init, OnlyCloseCancelsAnalysis
<1>2. Grows /\ CancelledByClose /\ OnlyCloseCancelsAnalysis => OnlyCloseCancelsAnalysis'
  BY DEF Grows, CancelledByClose, OnlyCloseCancelsAnalysis
<1>3. AnalysisInv /\ OnlyCloseCancelsAnalysis /\ [Next]_vars => OnlyCloseCancelsAnalysis'
  BY <1>2, NextGrows
<1> QED BY <1>1, <1>3, AnalysisInvariant, PTL DEF Spec

\* What a request may believe of the workers W: its tasks are about databases it
\* wants, one that is past the open is about a worker that is ready, and so is
\* an answer.
AnswerHeard(r, W) ==
  /\ r.op = "wait" => \A d \in r.want : W[d].ready
  /\ r.op = "multi" => \E d \in r.want : W[d].ready
Hears(r, W) ==
  /\ \A d \in Dbs : r.child[d] # "none" => /\ d \in r.want
                                           /\ r.op = "wait" => r.want = {d}
  /\ \A d \in Dbs : r.child[d] \in {"joining", "done"} =>
       (r.op \in {"wait", "multi"} => W[d].ready)
  /\ r.answer \notin {"none", "withdrawn"} => AnswerHeard(r, W)
Hearing == \A c \in Callers : Hears(caller[c], db)

LEMMA HearsLater ==
  ASSUME NEW r \in CallerRec, Hears(r, db), Grows PROVE Hears(r, db')
<1>1. r.want \subseteq Dbs
  BY DEF CallerRec
<1> QED BY <1>1 DEF Hears, AnswerHeard, Grows

LEMMA HearsReply ==
  ASSUME NEW r \in CallerRec, Hears(r, db), NEW answer, NEW got,
         answer \in {"none", "withdrawn"} \/ AnswerHeard(r, db)
  PROVE  Hears(Reply(r, answer, got), db)
<1> DEFINE q == Reply(r, answer, got)
<1>1. /\ q.op = r.op /\ q.want = r.want /\ q.answer = answer
      /\ q.child = [d \in Dbs |-> "none"]
  BY DEF Reply, CallerRec
<1> HIDE DEF q
<1>2. \A d \in Dbs : q.child[d] = "none"
  BY <1>1
<1>3. AnswerHeard(q, db) <=> AnswerHeard(r, db)
  BY <1>1 DEF AnswerHeard
<1>4. Hears(q, db)
  BY <1>1, <1>2, <1>3 DEF Hears
<1> QED BY <1>4 DEF q

LEMMA HearsChild ==
  ASSUME NEW r \in CallerRec, Hears(r, db), NEW d \in Dbs, d \in r.want,
         r.op = "wait" => r.want = {d}, NEW pc, NEW n,
         pc \in {"joining", "done"} /\ r.op \in {"wait", "multi"} => db[d].ready
  PROVE  /\ Hears([r EXCEPT !.child[d] = pc], db)
         /\ Hears([r EXCEPT !.child[d] = pc, !.on[d] = n], db)
<1>1. r.child \in [Dbs -> ChildPCs] /\ r.on \in [Dbs -> Nat]
  BY DEF CallerRec
<1>2. ASSUME NEW q, q.op = r.op, q.want = r.want, q.answer = r.answer,
             q.child = [r.child EXCEPT ![d] = pc]
      PROVE  Hears(q, db)
  <2>1. \A e \in Dbs : q.child[e] = IF e = d THEN pc ELSE r.child[e]
    BY <1>1, <1>2
  <2>2. AnswerHeard(q, db) <=> AnswerHeard(r, db)
    BY <1>2 DEF AnswerHeard
  <2>3. \A e \in Dbs : q.child[e] # "none" => e \in q.want /\ (q.op = "wait" => q.want = {e})
    BY <1>2, <2>1 DEF Hears
  <2>4. \A e \in Dbs : q.child[e] \in {"joining", "done"} =>
          (q.op \in {"wait", "multi"} => db[e].ready)
    BY <1>2, <2>1 DEF Hears
  <2>5. q.answer \notin {"none", "withdrawn"} => AnswerHeard(q, db)
    BY <1>2, <2>2 DEF Hears
  <2> HIDE DEF AnswerHeard
  <2> QED BY <2>3, <2>4, <2>5 DEF Hears
<1> DEFINE a == [r EXCEPT !.child[d] = pc]
           b == [r EXCEPT !.child[d] = pc, !.on[d] = n]
<1>3. /\ a.op = r.op /\ a.want = r.want /\ a.answer = r.answer
      /\ a.child = [r.child EXCEPT ![d] = pc]
  BY DEF CallerRec
<1>4. /\ b.op = r.op /\ b.want = r.want /\ b.answer = r.answer
      /\ b.child = [r.child EXCEPT ![d] = pc]
  BY DEF CallerRec
<1> HIDE DEF a, b
<1>5. Hears(a, db) /\ Hears(b, db)
  BY <1>2, <1>3, <1>4
<1> QED BY <1>5 DEF a, b

\* One database of a request is past its open.
LEMMA HearsReady ==
  ASSUME NEW r \in CallerRec, Hears(r, db), NEW d \in Dbs, d \in r.want,
         r.op = "wait" => r.want = {d},
         r.op \in {"wait", "multi"} => db[d].ready, NEW answer, NEW got
  PROVE  Hears(Reply(r, answer, got), db)
<1>1. AnswerHeard(r, db)
  BY DEF AnswerHeard
<1> QED BY <1>1, HearsReply

LEMMA HearsReleased ==
  ASSUME NEW r \in CallerRec, Hears(r, db), NEW d \in Dbs, d \in r.want,
         r.op = "wait" => r.want = {d}, r.op \in {"wait", "multi"} => db[d].ready
  PROVE  Hears(Released(r, d), db)
<1>1. Hears([r EXCEPT !.child[d] = "done"], db)
  BY HearsChild
<1>2. \A answer : Hears(Reply(r, answer, 0), db)
  BY HearsReady
<1> QED BY <1>1, <1>2 DEF Released

\* One request changes.
HearsNext(c) == \E r \in CallerRec : Becomes(c, r) /\ Hears(r, db)

LEMMA HearingKept ==
  ASSUME AnalysisInv, Hearing, Grows, NEW c \in Callers, HearsNext(c)
  PROVE  Hearing'
<1>1. PICK r \in CallerRec : Becomes(c, r) /\ Hears(r, db)
  BY DEF HearsNext
<1>2. caller \in [Callers -> CallerRec]
  BY DEF AnalysisInv, TypeOK
<1>3. \A e \in Callers : caller'[e] = IF e = c THEN r ELSE caller[e]
  BY <1>1, <1>2 DEF Becomes
<1>4. \A e \in Callers : caller'[e] \in CallerRec /\ Hears(caller'[e], db)
  BY <1>1, <1>2, <1>3 DEF Hearing
<1>5. \A e \in Callers : Hears(caller'[e], db')
  BY <1>4, HearsLater
<1> QED BY <1>5 DEF Hearing

LEMMA HearsAwaitAnalysis ==
  ASSUME AnalysisInv, NEW c \in Callers, NEW r, Fine(r), Hears(r, db), NEW d \in Dbs,
         d \in r.want, r.op = "wait" => r.want = {d}, db[d].ready, AwaitAnalysis(c, r, d)
  PROVE  HearsNext(c)
<1>0. r \in CallerRec /\ db[d] \in DbRec /\ passes[d] \in Seq(PassRec)
  BY DEF Fine, AnalysisInv, TypeOK
<1>1. /\ Hears([r EXCEPT !.child[d] = "done"], db)
      /\ [r EXCEPT !.child[d] = "done"] \in CallerRec
  BY <1>0, HearsChild, ChildFine DEF Fine
<1>2. Hears(Reply(r, "spawnFailed", 0), db) /\ Reply(r, "spawnFailed", 0) \in CallerRec
  BY <1>0, HearsReady, ReplyFine DEF Fine, Answers
<1>3. Hears(Released(r, d), db) /\ Released(r, d) \in CallerRec
  BY <1>0, HearsReleased, ReleasedFine DEF Fine
<1>4. \A n \in Nat : Hears(Joined(r, d, n), db) /\ Joined(r, d, n) \in CallerRec
  BY <1>0, HearsChild, JoinedShape DEF Joined
<1>5. db[d].task \in Nat /\ Len(passes[d]) + 1 \in Nat
  BY <1>0 DEF DbRec
<1>6. PICK q \in {[r EXCEPT !.child[d] = "done"], Reply(r, "spawnFailed", 0), Released(r, d),
                  Joined(r, d, db[d].task), Joined(r, d, Len(passes[d]) + 1)} : Becomes(c, q)
  BY DEF AwaitAnalysis
<1> QED BY <1>1, <1>2, <1>3, <1>4, <1>5, <1>6 DEF HearsNext

LEMMA HearsAwaitOpen ==
  ASSUME AnalysisInv, NEW c \in Callers, NEW r, Fine(r), Hears(r, db), NEW d \in Dbs,
         d \in r.want, r.op = "wait" => r.want = {d}, AwaitOpen(c, r, d)
  PROVE  HearsNext(c)
<1>1. CASE Opening(d)
  <2>1. r \in CallerRec /\ [r EXCEPT !.child[d] = "opening"] \in CallerRec
    BY ChildFine DEF Fine
  <2>2. Hears([r EXCEPT !.child[d] = "opening"], db)
    BY <2>1, HearsChild
  <2> QED BY <1>1, <2>1, <2>2 DEF AwaitOpen, HearsNext
<1>2. CASE ~Opening(d)
  BY <1>2, HearsAwaitAnalysis DEF AwaitOpen, Opening
<1> QED BY <1>1, <1>2

LEMMA NewCallHears ==
  ASSUME NEW op, NEW D
  PROVE  /\ Hears(NewCall(op, D), db)
         /\ NewCall(op, D).op = op /\ NewCall(op, D).want = D
BY DEF NewCall, Hears

LEMMA HearsJoinEnds ==
  ASSUME AnalysisInv, Hearing, NEW c \in Callers, NEW d \in Dbs, JoinEnds(c, d)
  PROVE  HearsNext(c)
<1> DEFINE r == caller[c]
<1>1. /\ Fine(r) /\ r \in CallerRec /\ Hears(r, db) /\ db[d] \in DbRec
      /\ r.child[d] = "joining"
  BY CallersFine DEF AnalysisInv, TypeOK, Hearing, JoinEnds
<1> HIDE DEF r
<1>2. /\ d \in r.want /\ (r.op = "wait" => r.want = {d})
      /\ r.op \in {"wait", "multi"} => db[d].ready
  BY <1>1 DEF Hears
<1>3. /\ Hears([r EXCEPT !.child[d] = "done"], db)
      /\ [r EXCEPT !.child[d] = "done"] \in CallerRec
  BY <1>1, <1>2, HearsChild, ChildFine DEF Fine
<1>4. Hears(Released(r, d), db) /\ Released(r, d) \in CallerRec
  BY <1>1, <1>2, HearsReleased, ReleasedFine DEF Fine
<1>5. \A a \in Answers, n \in Nat : Hears(Reply(r, a, n), db) /\ Reply(r, a, n) \in CallerRec
  BY <1>1, <1>2, HearsReady, ReplyFine DEF Fine
<1>6. {"cancelled", "analysisFailed", "noResult", "result"} \subseteq Answers
      /\ 0 \in Nat /\ db[d].last \in Nat
  BY <1>1 DEF Answers, DbRec
<1>7. PICK q \in {[r EXCEPT !.child[d] = "done"], Reply(r, "cancelled", 0), Released(r, d),
                  Reply(r, "analysisFailed", 0), Reply(r, "noResult", 0),
                  Reply(r, "result", db[d].last)} : Becomes(c, q)
  BY DEF JoinEnds, r
<1> QED BY <1>3, <1>4, <1>5, <1>6, <1>7 DEF HearsNext

LEMMA HearsMulti ==
  ASSUME AnalysisInv, Hearing, NEW c \in Callers, MultiAnswers(c) \/ CancelCall(c)
  PROVE  HearsNext(c)
<1> DEFINE r == caller[c]
<1>1. Fine(r) /\ r \in CallerRec /\ Hears(r, db)
  BY CallersFine DEF AnalysisInv, TypeOK, Hearing
<1>2. \A a \in Answers : Reply(r, a, 0) \in CallerRec
  BY <1>1, ReplyFine DEF Fine
<1>3. CASE MultiAnswers(c)
  <2>1. PICK a \in {"ready", "failed", "pending"} : Becomes(c, Reply(r, a, 0))
    BY <1>3 DEF MultiAnswers
  <2>2. PICK d \in r.want : r.child[d] = "done" /\ r.op = "multi"
    BY <1>3 DEF MultiAnswers
  <2>3. d \in Dbs
    BY <1>1 DEF CallerRec
  <2>4. db[d].ready
    BY <1>1, <2>2, <2>3 DEF Hears
  <2>5. AnswerHeard(r, db)
    BY <2>2, <2>4 DEF AnswerHeard
  <2>6. Hears(Reply(r, a, 0), db) /\ a \in Answers
    BY <1>1, <2>1, <2>5, HearsReply DEF Answers
  <2> QED BY <1>2, <2>1, <2>6 DEF HearsNext
<1>4. CASE CancelCall(c)
  <2>1. Hears(Reply(r, "withdrawn", 0), db) /\ "withdrawn" \in Answers
    BY <1>1, HearsReply DEF Answers
  <2> QED BY <1>2, <1>4, <2>1 DEF CancelCall, HearsNext
<1> QED BY <1>3, <1>4

LEMMA CallsHear ==
  ASSUME AnalysisInv, Hearing, NEW c \in Callers, Calls(c) \/ CallerStep(c)
  PROVE  HearsNext(c)
<1>0. Fine(caller[c]) /\ caller[c] \in CallerRec /\ Hears(caller[c], db)
  BY CallersFine DEF AnalysisInv, TypeOK, Hearing
<1>1. ASSUME NEW d \in Dbs, Wait(c, d) PROVE HearsNext(c)
  <2>1. Fine(NewCall("wait", {d}))
    BY NewCallFine
  <2> QED BY <1>1, <2>1, NewCallHears, HearsAwaitOpen DEF Wait
<1>2. ASSUME NEW d \in Dbs, RunAnalysis(c, d) PROVE HearsNext(c)
  <2> DEFINE r == NewCall("analyze", {d})
  <2>1. Fine(r) /\ r \in CallerRec /\ Hears(r, db) /\ r.op = "analyze" /\ r.want = {d}
    BY NewCallFine, NewCallHears DEF Fine
  <2> HIDE DEF r
  <2>2. \A n \in Nat : Hears(Joined(r, d, n), db) /\ Joined(r, d, n) \in CallerRec
    BY <2>1, HearsChild, JoinedShape DEF Joined
  <2>3. db[d].task \in Nat /\ Len(passes[d]) + 1 \in Nat
    BY DEF AnalysisInv, TypeOK, DbRec
  <2>4. PICK n \in {db[d].task, Len(passes[d]) + 1} : Becomes(c, Joined(r, d, n))
    BY <1>2 DEF RunAnalysis, r
  <2> QED BY <2>2, <2>3, <2>4 DEF HearsNext
<1>3. ASSUME NEW D \in (SUBSET Dbs) \ {{}}, WaitMulti(c, D) PROVE HearsNext(c)
  <2> DEFINE r == [NewCall("multi", D) EXCEPT
                     !.child = [d \in Dbs |-> IF d \in D THEN "start" ELSE "none"]]
  <2>1. r \in CallerRec
    BY DEF NewCall, CallerRec, ChildPCs, Answers
  <2>2. /\ r.op = "multi" /\ r.want = D /\ r.answer = "none"
        /\ \A d \in Dbs : r.child[d] = IF d \in D THEN "start" ELSE "none"
    BY DEF NewCall
  <2>3. Becomes(c, r)
    BY <1>3 DEF WaitMulti
  <2> HIDE DEF r
  <2>4. Hears(r, db)
    BY <2>2 DEF Hears
  <2> QED BY <2>1, <2>3, <2>4 DEF HearsNext
<1>4. ASSUME NEW d \in Dbs, ChildStarts(c, d) PROVE HearsNext(c)
  <2>1. caller[c].child[d] # "none"
    BY <1>4 DEF ChildStarts
  <2>2. d \in caller[c].want /\ (caller[c].op = "wait" => caller[c].want = {d})
    BY <1>0, <2>1 DEF Hears
  <2> QED BY <1>0, <1>4, <2>2, HearsAwaitOpen DEF ChildStarts
<1>5. ASSUME NEW d \in Dbs, OpenAwaited(c, d) PROVE HearsNext(c)
  <2>1. caller[c].child[d] # "none"
    BY <1>5 DEF OpenAwaited
  <2>2. d \in caller[c].want /\ (caller[c].op = "wait" => caller[c].want = {d})
    BY <1>0, <2>1 DEF Hears
  <2> QED BY <1>0, <1>5, <2>2, HearsAwaitAnalysis DEF OpenAwaited
<1> QED BY <1>1, <1>2, <1>3, <1>4, <1>5, HearsJoinEnds, HearsMulti DEF Calls, CallerStep

LEMMA NextHears ==
  ASSUME AnalysisInv, Hearing, [Next]_vars PROVE Hearing'
<1>1. Grows
  BY NextGrows
<1>2. CASE UNCHANGED caller
  <2>1. \A c \in Callers : caller[c] \in CallerRec /\ Hears(caller[c], db)
    BY DEF AnalysisInv, TypeOK, Hearing
  <2>2. \A c \in Callers : Hears(caller[c], db')
    BY <1>1, <2>1, HearsLater
  <2> QED BY <1>2, <2>2 DEF Hearing
<1>3. ASSUME NEW c \in Callers, Calls(c) \/ CallerStep(c) PROVE Hearing'
  BY <1>1, <1>3, CallsHear, HearingKept
<1>4. ASSUME NEW d \in Dbs, SpawnStep(d) PROVE UNCHANGED caller
  BY <1>4 DEF SpawnStep, SpawnStart, SpawnReady, SpawnMarkFailed, SpawnRemoved
<1>5. ASSUME NEW d \in Dbs, NEW n \in DOMAIN passes[d], PassStep(d, n)
      PROVE  UNCHANGED caller
  BY <1>5 DEF PassStep, PassCalls, PassLost, PassEnds, PassCancelled
<1>6. ASSUME NEW d \in Dbs, Close(d) \/ CloseStep(d) PROVE UNCHANGED caller
  BY <1>6 DEF Close, CloseStep, CloseSpawnOver, CloseAnalysisOver, CloseEnds
<1>7. ASSUME NEW d \in Dbs, WorkerAnswers(d) PROVE UNCHANGED caller
  BY <1>7 DEF WorkerAnswers, SpawnOpens, SpawnFails, WorkerDies, CallLosesWorker,
     PassSucceeds, PassFails, PassLosesWorker, PassRefreshed
<1>8. CASE UNCHANGED vars
  BY <1>2, <1>8 DEF vars
<1> QED BY <1>2, <1>3, <1>4, <1>5, <1>6, <1>7, <1>8 DEF Next

\* wait_for_analysis answers nothing about a database whose open has not
\* signalled (#5), whatever the worker's state, its spawn and its close do, for
\* every number of databases and requests.
THEOREM WaitsForTheOpen == Spec => []WaitsForOpening
<1>1. Init => Hearing
  <2>1. Hears(NewCall("none", {}), db)
    BY NewCallHears
  <2> QED BY <2>1 DEF Init, Hearing
<1>2. AnalysisInv /\ Hearing /\ [Next]_vars => Hearing'
  BY NextHears
<1>3. Hearing => WaitsForOpening
  BY DEF Hearing, Hears, AnswerHeard, WaitsForOpening, Told, Free
<1> QED BY <1>1, <1>2, <1>3, AnalysisInvariant, PTL DEF Spec

-----------------------------------------------------------------------------
(* Waiting analyses once *)

\* There is nothing to be analyzed, or nobody to do it.
Known(r) == r.analyzed \/ r.error \/ r.state # "IDLE"

\* The worker r has no pass before its open is over; a pass that is past its
\* call has left its outcome with the worker; and where there was a pass one is
\* running, or an outcome is there, or the worker is being closed.
Tries(r, s) ==
  /\ r.spawn \in {"created", "opening"} =>
       s = <<>> /\ r.state = "STARTING" /\ ~r.ready /\ ~r.connected /\ r.close = "no"
  /\ \A n \in DOMAIN s : s[n].pc \in {"losing", "refresh", "report"} => Known(r)
  /\ s # <<>> /\ r.close = "no" =>
       Known(r) \/ (r.task \in DOMAIN s /\ s[r.task].pc # "done")
Tried == \A d \in Dbs : Tries(db[d], passes[d])

\* The worker r goes on as q: its open does not begin again, an outcome stays,
\* and it keeps its task unless it closes.
Onward(r, q) ==
  /\ q.spawn \in {"created", "opening"} =>
       /\ r.spawn \in {"created", "opening"}
       /\ q.state = r.state /\ q.ready = r.ready /\ q.connected = r.connected
       /\ q.close = r.close
  /\ Known(r) => Known(q)
  /\ q.close = "no" => r.close = "no" /\ q.task = r.task

LEMMA TriesOnward ==
  ASSUME NEW r, NEW q, NEW s, Tries(r, s), Onward(r, q)
  PROVE  Tries(q, s)
BY DEF Tries, Onward

\* One pass moves, and leaves its outcome before it gets past its call or ends.
LEMMA TriesPass ==
  ASSUME NEW r, NEW q, NEW s \in Seq(PassRec), NEW n \in DOMAIN s, NEW p \in PassRec,
         Tries(r, s), Onward(r, q),
         p.pc \in {"losing", "refresh", "report"} => Known(q),
         p.pc = "done" => Known(q) \/ q.close # "no"
  PROVE  Tries(q, [s EXCEPT ![n] = p])
<1> DEFINE t == [s EXCEPT ![n] = p]
<1>1. n \in 1 .. Len(s) /\ DOMAIN s = 1 .. Len(s)
  OBVIOUS
<1>2. /\ t \in Seq(PassRec) /\ DOMAIN t = DOMAIN s
      /\ \A j \in DOMAIN s : t[j] = IF j = n THEN p ELSE s[j]
  BY <1>1, SeqSet
<1> HIDE DEF t
<1>3. s # <<>>
  BY <1>1
<1>4. Tries(q, t)
  <2>1. ~(q.spawn \in {"created", "opening"})
    BY <1>3 DEF Tries, Onward
  <2>2. \A j \in DOMAIN t : t[j].pc \in {"losing", "refresh", "report"} => Known(q)
    BY <1>2 DEF Tries, Onward
  <2>3. q.close = "no" => Known(q) \/ (q.task \in DOMAIN t /\ t[q.task].pc # "done")
    BY <1>2, <1>3 DEF Tries, Onward
  <2> QED BY <2>1, <2>2, <2>3 DEF Tries
<1> QED BY <1>4 DEF t

\* A pass starts where none is running, after the open.
LEMMA TriesStart ==
  ASSUME NEW q, NEW s \in Seq(PassRec), NEW by \in {"wait", "tool", "auto"},
         \A n \in DOMAIN s : s[n].pc = "done",
         q.spawn \notin {"created", "opening"}, q.task = Len(s) + 1
  PROVE  Tries(q, Append(s, NewPass(by)))
<1> DEFINE t == Append(s, NewPass(by))
<1>1. NewPass(by) \in PassRec /\ NewPass(by).pc = "created"
  BY DEF NewPass, PassRec, PassPCs
<1>2. /\ t \in Seq(PassRec) /\ Len(t) = Len(s) + 1
      /\ \A i \in 1 .. Len(s) : t[i] = s[i]
      /\ t[Len(s) + 1] = NewPass(by)
  BY <1>1, AppendProperties
<1>3. DOMAIN s = 1 .. Len(s) /\ DOMAIN t = 1 .. Len(t) /\ Len(s) \in Nat
  BY <1>2
<1> HIDE DEF t
<1>4. \A n \in DOMAIN t : t[n].pc \notin {"losing", "refresh", "report"}
  BY <1>1, <1>2, <1>3
<1>5. q.task \in DOMAIN t /\ t[q.task].pc # "done"
  BY <1>1, <1>2, <1>3
<1>6. Tries(q, t)
  BY <1>4, <1>5 DEF Tries
<1> QED BY <1>6 DEF t

\* A step is about one worker, and makes it q with the passes t; no pass that a
\* request starts follows another, unless the worker is being closed.
Anew(d, q, t) ==
  /\ db' = [db EXCEPT ![d] = q]
  /\ passes' = [passes EXCEPT ![d] = t]
  /\ Tries(q, t)
  /\ Len(t) > Len(passes[d]) /\ t[Len(t)].by = "wait" /\ db[d].close = "no"
       => passes[d] = <<>>
OnceMore ==
  \A d \in Dbs :
    /\ Len(passes'[d]) > Len(passes[d])
    /\ passes'[d][Len(passes'[d])].by = "wait"
    /\ db[d].close = "no"
    => passes[d] = <<>>
Onces == Tried' /\ OnceMore

LEMMA AnewOnces ==
  ASSUME AnalysisInv, Tried, NEW d \in Dbs, NEW q, NEW t, Anew(d, q, t)
  PROVE  Onces
<1>1. db \in [Dbs -> DbRec] /\ passes \in [Dbs -> Seq(PassRec)]
  BY DEF AnalysisInv, TypeOK
<1>2. /\ db'[d] = q /\ passes'[d] = t
      /\ \A e \in Dbs : e # d => db'[e] = db[e] /\ passes'[e] = passes[e]
  BY <1>1 DEF Anew
<1>3. \A e \in Dbs : Tries(db'[e], passes'[e])
  <2> TAKE e \in Dbs
  <2>1. CASE e = d
    BY <2>1, <1>2 DEF Anew
  <2>2. CASE e # d
    BY <2>2, <1>2 DEF Tried
  <2> QED BY <2>1, <2>2
<1>4. Tried'
  BY <1>3 DEF Tried
<1>5. OnceMore
  <2> SUFFICES ASSUME NEW e \in Dbs, Len(passes'[e]) > Len(passes[e]),
                      passes'[e][Len(passes'[e])].by = "wait", db[e].close = "no"
               PROVE  passes[e] = <<>>
    BY DEF OnceMore
  <2>1. CASE e = d
    BY <2>1, <1>2 DEF Anew
  <2>2. CASE e # d
    <3>1. Len(passes[e]) \in Nat
      BY <1>1
    <3> QED BY <2>2, <1>2, <3>1
  <2> QED BY <2>1, <2>2
<1> QED BY <1>4, <1>5 DEF Onces

\* A step of the worker alone.
LEMMA RecordOnces ==
  ASSUME AnalysisInv, Tried, NEW d \in Dbs, NEW q, db' = [db EXCEPT ![d] = q],
         UNCHANGED passes, Onward(db[d], q)
  PROVE  Onces
<1>1. passes \in [Dbs -> Seq(PassRec)] /\ Len(passes[d]) \in Nat
  BY DEF AnalysisInv, TypeOK
<1>2. passes' = [passes EXCEPT ![d] = passes[d]]
  BY <1>1
<1>3. Tries(q, passes[d])
  BY TriesOnward DEF Tried
<1> DEFINE t == passes[d]
<1>4. /\ passes' = [passes EXCEPT ![d] = t] /\ Tries(q, t)
      /\ Len(t) = Len(passes[d]) /\ Len(t) \in Nat
  BY <1>1, <1>2, <1>3
<1> HIDE DEF t
<1>5. ~(Len(t) > Len(passes[d]))
  <2>1. \A k \in Nat : ~(k > k)
    OBVIOUS
  <2> QED BY <1>4, <2>1, Zenon
<1>6. Anew(d, q, t)
  BY <1>4, <1>5, Zenon DEF Anew
<1> QED BY <1>6, AnewOnces

\* A step of one pass.
LEMMA PassOnces ==
  ASSUME AnalysisInv, Tried, NEW d \in Dbs, NEW n \in DOMAIN passes[d], NEW p \in PassRec,
         PassBecomes(d, n, p), NEW q, db' = [db EXCEPT ![d] = q], Onward(db[d], q),
         p.pc \in {"losing", "refresh", "report"} => Known(q),
         p.pc = "done" => Known(q) \/ q.close # "no"
  PROVE  Onces
<1> DEFINE t == [passes[d] EXCEPT ![n] = p]
<1>1. passes \in [Dbs -> Seq(PassRec)] /\ passes[d] \in Seq(PassRec) /\ Len(passes[d]) \in Nat
  BY DEF AnalysisInv, TypeOK
<1>2. passes' = [passes EXCEPT ![d] = t]
  BY <1>1 DEF PassBecomes
<1>3. Tries(q, t)
  BY <1>1, TriesPass DEF Tried
<1>4. Len(t) = Len(passes[d])
  BY <1>1, SeqSet
<1> HIDE DEF t
<1>5. Anew(d, q, t)
  BY <1>1, <1>2, <1>3, <1>4 DEF Anew
<1> QED BY <1>5, AnewOnces

\* The start of a pass.
LEMMA StartOnces ==
  ASSUME AnalysisInv, Tried, NEW d \in Dbs, NEW r \in DbRec,
         NEW by \in {"wait", "tool", "auto"}, StartPass(d, r, by), ~Analyzing(d),
         r.spawn \notin {"created", "opening"},
         by = "wait" /\ db[d].close = "no" => passes[d] = <<>>
  PROVE  Onces
<1> DEFINE t == Append(passes[d], NewPass(by))
           q == [r EXCEPT !.error = FALSE, !.task = Len(passes[d]) + 1]
<1>1. passes[d] \in Seq(PassRec) /\ Len(passes[d]) \in Nat
  BY DEF AnalysisInv, TypeOK
<1>2. \A n \in DOMAIN passes[d] : passes[d][n].pc = "done"
  BY DEF AnalysisInv, OneAnalysis, Analyzing, Running
<1>3. q.spawn = r.spawn /\ q.task = Len(passes[d]) + 1
  BY DEF DbRec
<1>4. db' = [db EXCEPT ![d] = q] /\ passes' = [passes EXCEPT ![d] = t]
  BY <1>1 DEF StartPass, AnalysisInv, TypeOK
<1>5. NewPass(by) \in PassRec /\ NewPass(by).by = by
  BY DEF NewPass, PassRec, PassPCs
<1>6. Len(t) = Len(passes[d]) + 1 /\ t[Len(passes[d]) + 1] = NewPass(by)
  BY <1>1, <1>5, AppendProperties
<1> HIDE DEF q
<1>7. Tries(q, t)
  BY <1>1, <1>2, <1>3, TriesStart
<1> HIDE DEF t
<1>8. Anew(d, q, t)
  BY <1>4, <1>5, <1>6, <1>7 DEF Anew
<1> QED BY <1>8, AnewOnces

-----------------------------------------------------------------------------
\* The steps of the open, of the worker and of its close.
LEMMA SpawnOnces ==
  ASSUME AnalysisInv, Tried, NEW d \in Dbs,
         \/ SpawnStep(d) \/ SpawnOpens(d) \/ SpawnFails(d) \/ WorkerDies(d)
         \/ CallLosesWorker(d)
  PROVE  Onces
<1>0. db[d] \in DbRec /\ db \in [Dbs -> DbRec]
  BY DEF AnalysisInv, TypeOK
<1> DEFINE Good(r) == db' = [db EXCEPT ![d] = r] /\ Onward(db[d], r)
<1>1. CASE SpawnStart(d)
  <2>1. Good([db[d] EXCEPT !.spawn = "opening"])
    BY <1>0, <1>1 DEF SpawnStart, Onward, Known, DbRec
  <2> QED BY <1>1, <2>1, RecordOnces DEF SpawnStart
<1>2. CASE SpawnReady(d)
  <2> DEFINE r == [db[d] EXCEPT !.spawn = "done", !.ready = TRUE]
  <2>1. r \in DbRec /\ r.spawn = "done" /\ Onward(db[d], r)
    BY <1>0 DEF Onward, Known, DbRec, SpawnPCs
  <2>2. \/ StartPass(d, r, "auto") /\ ~Analyzing(d)
        \/ db' = [db EXCEPT ![d] = r] /\ UNCHANGED passes
    BY <1>2 DEF SpawnReady
  <2> HIDE DEF r
  <2> QED BY <2>1, <2>2, StartOnces, RecordOnces
<1>3. CASE SpawnMarkFailed(d)
  <2>1. Good(Failed(db[d]))
    BY <1>0, <1>3 DEF SpawnMarkFailed, Failed, Onward, Known, DbRec
  <2> QED BY <1>3, <2>1, RecordOnces DEF SpawnMarkFailed
<1>4. CASE SpawnRemoved(d)
  <2>1. Good([db[d] EXCEPT !.spawn = "done", !.listed = FALSE, !.spawnError = TRUE,
                           !.ready = TRUE])
    BY <1>0, <1>4 DEF SpawnRemoved, Onward, Known, DbRec
  <2> QED BY <1>4, <2>1, RecordOnces DEF SpawnRemoved
<1>5. CASE SpawnOpens(d)
  <2> PICK analyzed \in BOOLEAN :
             db' = [db EXCEPT ![d] = [db[d] EXCEPT !.spawn = "logging", !.state = "IDLE",
                      !.connected = TRUE, !.analyzed = analyzed /\ ~db[d].auto]]
    BY <1>0, <1>5 DEF SpawnOpens
  <2> DEFINE r == [db[d] EXCEPT !.spawn = "logging", !.state = "IDLE",
                      !.connected = TRUE, !.analyzed = analyzed /\ ~db[d].auto]
  <2>1. passes[d] = <<>> /\ UNCHANGED passes /\ r.spawn = "logging"
    BY <1>0, <1>5 DEF SpawnOpens, Tried, Tries, DbRec
  <2> HIDE DEF r
  <2>2. Tries(r, passes[d]) /\ passes' = [passes EXCEPT ![d] = passes[d]]
    BY <2>1 DEF Tries, AnalysisInv, TypeOK
  <2>3. Anew(d, r, passes[d])
    BY <2>1, <2>2 DEF Anew, r
  <2> QED BY <2>3, AnewOnces
<1>6. CASE SpawnFails(d)
  <2>1. Good([db[d] EXCEPT !.spawn = "failing"])
    BY <1>0, <1>6 DEF SpawnFails, Onward, Known, DbRec
  <2> QED BY <1>6, <2>1, RecordOnces DEF SpawnFails
<1>7. CASE WorkerDies(d)
  <2>1. db[d].spawn = "done"
    BY <1>7 DEF WorkerDies
  <2>2. Good([db[d] EXCEPT !.state = "DEAD"])
    BY <1>0, <1>7, <2>1 DEF WorkerDies, Onward, Known, DbRec
  <2> QED BY <1>7, <2>2, RecordOnces DEF WorkerDies
<1>8. CASE CallLosesWorker(d)
  <2>1. db[d].spawn \notin {"created", "opening"}
    BY <1>8 DEF CallLosesWorker, Tried, Tries
  <2>2. Good(Lost(db[d]))
    BY <1>0, <1>8, <2>1 DEF CallLosesWorker, Lost, Dropped, Onward, Known, DbRec
  <2> QED BY <1>8, <2>2, RecordOnces DEF CallLosesWorker
<1> QED BY <1>1, <1>2, <1>3, <1>4, <1>5, <1>6, <1>7, <1>8 DEF SpawnStep

\* The steps of a pass.
LEMMA PassStepOnces ==
  ASSUME AnalysisInv, Tried, OnlyCloseCancelsAnalysis, NEW d \in Dbs,
         NEW n \in DOMAIN passes[d],
         \/ PassStep(d, n)
         \/ PassSucceeds(d, n)
         \/ PassFails(d, n)
         \/ PassLosesWorker(d, n)
         \/ PassRefreshed(d, n)
  PROVE  Onces
<1>0. /\ db[d] \in DbRec /\ db \in [Dbs -> DbRec] /\ passes[d][n] \in PassRec
      /\ passes[d] # <<>>
      /\ {"calling", "refresh", "losing", "report", "done"} \subseteq PassPCs
  <2>1. DOMAIN <<>> = {}
    OBVIOUS
  <2>2. passes[d] # <<>>
    BY <2>1, Zenon
  <2>3. db[d] \in DbRec /\ db \in [Dbs -> DbRec]
    BY DEF AnalysisInv, TypeOK
  <2> QED BY <2>2, <2>3, PassShapes DEF PassPCs
<1>1. db[d].spawn \notin {"created", "opening"}
  BY <1>0 DEF Tried, Tries
<1>2. \A pc \in PassPCs : /\ [passes[d][n] EXCEPT !.pc = pc] \in PassRec
                          /\ [passes[d][n] EXCEPT !.pc = pc].pc = pc
  BY <1>0 DEF PassRec
<1>3. \A pc \in PassPCs, result \in {"ok", "error"} :
        /\ [passes[d][n] EXCEPT !.pc = pc, !.result = result] \in PassRec
        /\ [passes[d][n] EXCEPT !.pc = pc, !.result = result].pc = pc
  BY <1>0 DEF PassRec
<1>4. \A end \in {"finished", "cancelled"} :
        /\ [passes[d][n] EXCEPT !.pc = "done", !.end = end] \in PassRec
        /\ [passes[d][n] EXCEPT !.pc = "done", !.end = end].pc = "done"
  BY <1>0 DEF PassRec, PassPCs
<1>5. passes[d][n].pc \in {"losing", "refresh", "report"} => Known(db[d])
  BY DEF Tried, Tries
<1> DEFINE Goes(pc) == \E p \in PassRec : p.pc = pc /\ PassBecomes(d, n, p)
           Good(q) == db' = [db EXCEPT ![d] = q] /\ Onward(db[d], q)
<1>6. Onward(db[d], db[d])
  BY DEF Onward
<1>7. UNCHANGED db => Good(db[d])
  BY <1>0, <1>6
<1>8. /\ Onward(db[d], Dropped(db[d])) /\ Known(Dropped(db[d]))
      /\ Onward(db[d], Lost(db[d])) /\ Known(Lost(db[d]))
      /\ Onward(db[d], WithError(db[d], n)) /\ Known(WithError(db[d], n))
      /\ Onward(db[d], WithError(Lost(db[d]), n)) /\ Known(WithError(Lost(db[d]), n))
  BY <1>0, <1>1 DEF Onward, Known, Dropped, Lost, WithError, DbRec
<1>9. ASSUME NEW pc, Goes(pc), NEW q, Good(q),
             pc \in {"losing", "refresh", "report"} => Known(q),
             pc = "done" => Known(q) \/ q.close # "no"
      PROVE  Onces
  <2>1. PICK p \in PassRec : p.pc = pc /\ PassBecomes(d, n, p)
    BY <1>9
  <2> QED BY <1>9, <2>1, PassOnces
<1>10. \A pc \in PassPCs : PassAt(d, n, pc) => Goes(pc)
  BY <1>2 DEF PassAt
<1>11. \A pc \in PassPCs, result \in {"ok", "error"} : PassHas(d, n, pc, result) => Goes(pc)
  BY <1>3 DEF PassHas
<1>12. \A end \in {"finished", "cancelled"} : PassOver(d, n, end) => Goes("done")
  BY <1>4 DEF PassOver
<1> HIDE DEF Goes, Good
<1>13. \A q : Good(q) <=> db' = [db EXCEPT ![d] = q] /\ Onward(db[d], q)
  BY DEF Good
<1>14. CASE PassCalls(d, n)
  <2>1. CASE PassAt(d, n, "calling") /\ UNCHANGED db
    BY <1>0, <1>7, <1>9, <1>10, <2>1
  <2>2. CASE PassAt(d, n, "losing") /\ db' = [db EXCEPT ![d] = Dropped(@)]
    BY <1>0, <1>8, <1>9, <1>10, <1>13, <2>2
  <2> QED BY <1>14, <2>1, <2>2 DEF PassCalls
<1>15. CASE PassLost(d, n)
  <2>1. CASE PassHas(d, n, "report", "error") /\ db' = [db EXCEPT ![d] = WithError(Lost(@), n)]
    BY <1>0, <1>8, <1>9, <1>11, <1>13, <2>1
  <2>2. CASE PassAt(d, n, "report") /\ db' = [db EXCEPT ![d] = Lost(@)]
    BY <1>0, <1>8, <1>9, <1>10, <1>13, <2>2
  <2> QED BY <1>15, <2>1, <2>2 DEF PassLost
<1>16. CASE PassEnds(d, n)
  <2>1. Known(db[d]) /\ PassOver(d, n, "finished") /\ UNCHANGED db
    BY <1>5, <1>16 DEF PassEnds, At
  <2> QED BY <1>7, <1>9, <1>12, <2>1
<1>17. CASE PassCancelled(d, n)
  <2>1. db[d].close # "no" /\ PassOver(d, n, "cancelled") /\ UNCHANGED db
    BY <1>17 DEF PassCancelled, OnlyCloseCancelsAnalysis
  <2> QED BY <1>7, <1>9, <1>12, <2>1
<1>18. CASE PassSucceeds(d, n)
  <2> DEFINE r == [db[d] EXCEPT !.last = n, !.analyzed = TRUE, !.error = FALSE]
  <2>1. Onward(db[d], r) /\ Known(r) /\ db' = [db EXCEPT ![d] = r]
    BY <1>0, <1>1, <1>18 DEF PassSucceeds, Onward, Known, DbRec
  <2> HIDE DEF r
  <2>2. Good(r)
    BY <1>13, <2>1
  <2>3. Goes("refresh") \/ Goes("report")
    BY <1>0, <1>11, <1>18 DEF PassSucceeds
  <2> QED BY <1>9, <2>1, <2>2, <2>3
<1>19. CASE PassFails(d, n)
  BY <1>0, <1>8, <1>9, <1>11, <1>13, <1>19 DEF PassFails
<1>20. CASE PassLosesWorker(d, n)
  BY <1>0, <1>8, <1>9, <1>10, <1>13, <1>20 DEF PassLosesWorker
<1>21. CASE PassRefreshed(d, n)
  <2>1. Known(db[d]) /\ PassAt(d, n, "report") /\ UNCHANGED db
    BY <1>5, <1>21 DEF PassRefreshed, At
  <2> QED BY <1>0, <1>7, <1>9, <1>10, <2>1
<1> QED BY <1>14, <1>15, <1>16, <1>17, <1>18, <1>19, <1>20, <1>21 DEF PassStep

\* The steps of a close.
LEMMA CancelOnces ==
  ASSUME AnalysisInv, Tried, NEW d \in Dbs, NEW r \in DbRec, Onward(db[d], r),
         r.task = db[d].task, r.spawn = "done", CancelAnalysis(d, r)
  PROVE  Onces
<1>1. CASE Analyzing(d)
  <2> DEFINE n == db[d].task
             q == [r EXCEPT !.close = "awaitAnalysis", !.awaited = r.task]
             p == [passes[d][n] EXCEPT !.cancel = TRUE]
  <2>1. n \in DOMAIN passes[d] /\ passes[d][n].pc # "done"
    BY <1>1 DEF Analyzing, Running
  <2>2. passes[d][n] \in PassRec /\ p \in PassRec
    BY <2>1, PassShapes
  <2>3. p.pc = passes[d][n].pc /\ PassBecomes(d, n, p)
    BY <1>1, <2>2 DEF CancelAnalysis, Cancelling, PassRec
  <2>4. db' = [db EXCEPT ![d] = q] /\ Onward(db[d], q)
    BY <1>1 DEF CancelAnalysis, Onward, Known, DbRec
  <2>5. p.pc \in {"losing", "refresh", "report"} => Known(q)
    BY <2>1, <2>3, <2>4 DEF Tried, Tries, Onward
  <2> HIDE DEF n, q, p
  <2> QED BY <2>1, <2>2, <2>3, <2>4, <2>5, PassOnces
<1>2. CASE ~Analyzing(d)
  <2> DEFINE q == [r EXCEPT !.close = "saving", !.task = 0]
  <2>1. Onward(db[d], q)
    BY DEF Onward, Known, DbRec
  <2>2. db' = [db EXCEPT ![d] = q] /\ UNCHANGED passes
    BY <1>2 DEF CancelAnalysis
  <2> HIDE DEF q
  <2> QED BY <2>1, <2>2, RecordOnces
<1> QED BY <1>1, <1>2

LEMMA CloseOnces ==
  ASSUME AnalysisInv, Tried, NEW d \in Dbs, Close(d) \/ CloseStep(d)
  PROVE  Onces
<1>0. db[d] \in DbRec /\ db \in [Dbs -> DbRec]
  BY DEF AnalysisInv, TypeOK
<1>1. CASE Close(d)
  <2> DEFINE r == [db[d] EXCEPT !.listed = FALSE]
             q == [CancelSpawn(r) EXCEPT !.close = "awaitSpawn"]
  <2>1. r \in DbRec /\ Onward(db[d], r) /\ r.task = db[d].task /\ r.spawn = db[d].spawn
    BY <1>0 DEF DbRec, Onward, Known
  <2>2. Onward(db[d], q)
    BY <1>0 DEF CancelSpawn, DbRec, Onward, Known
  <2>3. \/ CancelAnalysis(d, r) /\ r.spawn = "done"
        \/ db' = [db EXCEPT ![d] = q] /\ UNCHANGED passes
    BY <1>1 DEF Close
  <2> HIDE DEF r, q
  <2> QED BY <2>1, <2>2, <2>3, CancelOnces, RecordOnces
<1>2. CASE CloseSpawnOver(d)
  BY <1>0, <1>2, CancelOnces DEF CloseSpawnOver, Onward
<1>3. CASE CloseAnalysisOver(d)
  <2> DEFINE q == [Forgotten(db[d]) EXCEPT !.close = "saving", !.awaited = 0]
  <2>1. Onward(db[d], q)
    BY <1>0, <1>3 DEF CloseAnalysisOver, Tried, Tries, Forgotten, DbRec, Onward, Known
  <2>2. db' = [db EXCEPT ![d] = q] /\ UNCHANGED passes
    BY <1>0, <1>3 DEF CloseAnalysisOver
  <2> HIDE DEF q
  <2> QED BY <2>1, <2>2, RecordOnces
<1>4. CASE CloseEnds(d)
  <2> DEFINE q == [db[d] EXCEPT !.close = "closed", !.state = "DEAD", !.connected = FALSE]
  <2>1. Onward(db[d], q)
    BY <1>0, <1>4 DEF CloseEnds, Tried, Tries, DbRec, Onward, Known
  <2>2. db' = [db EXCEPT ![d] = q] /\ UNCHANGED passes
    BY <1>0, <1>4 DEF CloseEnds
  <2> HIDE DEF q
  <2> QED BY <2>1, <2>2, RecordOnces
<1> QED BY <1>1, <1>2, <1>3, <1>4 DEF CloseStep

\* The steps of a request: wait_for_ready starts a pass only where the guard of
\* _ensure_analysis_started finds that one is needed.
LEMMA AwaitOnces ==
  ASSUME AnalysisInv, Tried, NEW c, NEW r, NEW d \in Dbs, db[d].ready, AwaitAnalysis(c, r, d)
  PROVE  Onces
<1>0. db[d] \in DbRec /\ db \in [Dbs -> DbRec]
  BY DEF AnalysisInv, TypeOK
<1>1. CASE UNCHANGED <<db, passes>>
  <2>1. db' = [db EXCEPT ![d] = db[d]] /\ Onward(db[d], db[d])
    BY <1>0, <1>1 DEF Onward
  <2> QED BY <1>1, <2>1, RecordOnces
<1>2. CASE NeedsAnalysis(d) /\ StartPass(d, db[d], "wait")
  <2>1. db[d].spawn \notin {"created", "opening"}
    BY DEF Tried, Tries
  <2>2. ~Analyzing(d) /\ ~Known(db[d])
    BY <1>2 DEF NeedsAnalysis, Known
  <2>3. db[d].close = "no" => passes[d] = <<>>
    BY <2>2 DEF Tried, Tries, Analyzing, Running
  <2> QED BY <1>0, <1>2, <2>1, <2>2, <2>3, StartOnces
<1> QED BY <1>1, <1>2 DEF AwaitAnalysis

LEMMA CallsOnces ==
  ASSUME AnalysisInv, Tried, NEW c \in Callers, Calls(c) \/ CallerStep(c)
  PROVE  Onces \/ UNCHANGED <<db, passes>>
<1>1. ASSUME NEW d \in Dbs, NEW r, AwaitOpen(c, r, d) PROVE Onces \/ UNCHANGED <<db, passes>>
  BY <1>1, AwaitOnces DEF AwaitOpen, Opening
<1>2. ASSUME NEW d \in Dbs, OpenAwaited(c, d) PROVE Onces
  BY <1>2, AwaitOnces DEF OpenAwaited
<1>3. ASSUME NEW d \in Dbs, RunAnalysis(c, d) PROVE Onces \/ UNCHANGED <<db, passes>>
  <2>1. CASE ~Analyzing(d) /\ StartPass(d, db[d], "tool")
    <3>1. db[d] \in DbRec /\ db[d].spawn \notin {"created", "opening"}
      BY <1>3 DEF RunAnalysis, Tried, Tries, AnalysisInv, TypeOK
    <3> QED BY <2>1, <3>1, StartOnces
  <2> QED BY <1>3, <2>1 DEF RunAnalysis
<1> QED BY <1>1, <1>2, <1>3 DEF Calls, CallerStep, Wait, WaitMulti, CancelCall, Withdrawn,
        ChildStarts, JoinEnds, MultiAnswers

\* Every step keeps what the workers know of their passes, and starts none for a
\* request that waits where there was one.
LEMMA NextOnces ==
  ASSUME AnalysisInv, Tried, OnlyCloseCancelsAnalysis, [Next]_vars
  PROVE  Onces
<1>1. CASE UNCHANGED <<db, passes>>
  <2>1. Tried'
    BY <1>1 DEF Tried
  <2>2. \A d \in Dbs : Len(passes[d]) \in Nat
    BY DEF AnalysisInv, TypeOK
  <2>3. OnceMore
    BY <1>1, <2>2 DEF OnceMore
  <2> QED BY <2>1, <2>3 DEF Onces
<1>2. ASSUME NEW d \in Dbs, WorkerAnswers(d) PROVE Onces
  BY <1>2, SpawnOnces, PassStepOnces DEF WorkerAnswers
<1>3. CASE UNCHANGED vars
  BY <1>1, <1>3 DEF vars
<1> QED BY <1>1, <1>2, <1>3, SpawnOnces, PassStepOnces, CloseOnces, CallsOnces DEF Next

\* wait_for_analysis starts the analysis of a worker that nobody closes at most
\* once: after any pass, of the open, of a tool or of another request, whatever
\* became of it, none is started, for every number of databases and requests.
THEOREM WaitingAnalysesOnce == Spec => AnalysedOnce
<1>1. Init => Tried
  BY DEF Init, Tried, Tries, NewDb
<1>2. AnalysisInv /\ Tried /\ OnlyCloseCancelsAnalysis /\ [Next]_vars => Tried' /\ OnceMore
  BY NextOnces DEF Onces
<1>3. [OnceMore]_vars <=>
        [\A d \in Dbs :
           /\ Len(passes'[d]) > Len(passes[d])
           /\ passes'[d][Len(passes'[d])].by = "wait"
           /\ db[d].close = "no"
           => passes[d] = <<>>]_vars
  BY DEF OnceMore
<1>4. Spec => [][OnceMore]_vars
  BY <1>1, <1>2, AnalysisInvariant, OnlyCloseCancels, PTL DEF Spec
<1> QED BY <1>3, <1>4, PTL DEF AnalysedOnce

-----------------------------------------------------------------------------
(* No close and no request waits for nothing *)

\* A worker's open ends with its signal unless a close cut it short; a close that
\* awaits the spawn task has cancelled it, and goes on once it is over.
Held(r) ==
  /\ r.spawn = "done" => r.ready \/ r.close # "no"
  /\ r.close = "awaitSpawn" => r.spawn \in {"removing", "done"}
  /\ r.close \in {"awaitAnalysis", "saving", "closed"} => r.spawn = "done"
Holding == \A d \in Dbs : Held(db[d])

LEMMA RecordHolds ==
  ASSUME AnalysisInv, Holding, NEW d \in Dbs, NEW r, db' = [db EXCEPT ![d] = r], Held(r)
  PROVE  Holding'
<1>1. \A e \in Dbs : db'[e] = IF e = d THEN r ELSE db[e]
  BY DEF AnalysisInv, TypeOK
<1> QED BY <1>1 DEF Holding

\* Steps that touch neither the spawn, the event nor the close.
LEMMA RecordStays ==
  ASSUME AnalysisInv, Holding, NEW d \in Dbs, NEW r, db' = [db EXCEPT ![d] = r],
         r.spawn = db[d].spawn, r.ready = db[d].ready, r.close = db[d].close
  PROVE  Holding'
<1>1. Held(r)
  BY DEF Holding, Held
<1> QED BY <1>1, RecordHolds

LEMMA SpawnHolds ==
  ASSUME AnalysisInv, Holding, NEW d \in Dbs,
         SpawnStep(d) \/ SpawnOpens(d) \/ SpawnFails(d)
  PROVE  Holding'
<1>0. db[d] \in DbRec /\ db \in [Dbs -> DbRec] /\ Held(db[d])
  BY DEF AnalysisInv, TypeOK, Holding
<1>1. CASE SpawnReady(d)
  <2> DEFINE r == [db[d] EXCEPT !.spawn = "done", !.ready = TRUE]
  <2>1. r.ready /\ r.close = db[d].close /\ r.spawn = "done" /\ db[d].spawn = "logging"
    BY <1>0, <1>1 DEF DbRec, SpawnReady
  <2>2. Held(r)
    BY <1>0, <2>1 DEF Held
  <2>3. CASE StartPass(d, r, "auto")
    <3> DEFINE q == [r EXCEPT !.error = FALSE, !.task = Len(passes[d]) + 1]
    <3>1. /\ db' = [db EXCEPT ![d] = q]
          /\ q.ready = r.ready /\ q.close = r.close /\ q.spawn = r.spawn
      BY <1>0, <2>3 DEF StartPass, DbRec
    <3> HIDE DEF r, q
    <3>2. Held(q)
      BY <2>2, <3>1 DEF Held
    <3> QED BY <3>1, <3>2, RecordHolds
  <2>4. CASE db' = [db EXCEPT ![d] = r]
    BY <2>2, <2>4, RecordHolds
  <2> QED BY <1>1, <2>3, <2>4 DEF SpawnReady
<1>2. CASE SpawnStart(d) \/ SpawnFails(d)
  <2>1. PICK s \in {"opening", "failing"} : db' = [db EXCEPT ![d] = [db[d] EXCEPT !.spawn = s]]
    BY <1>2 DEF SpawnStart, SpawnFails
  <2> DEFINE r == [db[d] EXCEPT !.spawn = s]
  <2>2. r.spawn = s /\ r.ready = db[d].ready /\ r.close = db[d].close
    BY <1>0 DEF DbRec
  <2>3. db[d].spawn \in {"created", "opening"}
    BY <1>2 DEF SpawnStart, SpawnFails
  <2>4. Held(r)
    BY <1>0, <2>1, <2>2, <2>3 DEF Held
  <2> QED BY <2>1, <2>4, RecordHolds
<1>3. CASE SpawnOpens(d)
  <2>1. PICK analyzed \in BOOLEAN :
          db' = [db EXCEPT ![d] = [db[d] EXCEPT !.spawn = "logging", !.state = "IDLE",
                   !.connected = TRUE, !.analyzed = analyzed /\ ~db[d].auto]]
    BY <1>0, <1>3 DEF SpawnOpens
  <2> DEFINE r == [db[d] EXCEPT !.spawn = "logging", !.state = "IDLE",
                     !.connected = TRUE, !.analyzed = analyzed /\ ~db[d].auto]
  <2>2. /\ r.spawn = "logging" /\ r.ready = db[d].ready /\ r.close = db[d].close
        /\ db[d].spawn = "opening"
    BY <1>0, <1>3 DEF DbRec, SpawnOpens
  <2>3. db' = [db EXCEPT ![d] = r]
    BY <2>1
  <2> HIDE DEF r
  <2>4. Held(r)
    BY <1>0, <2>2 DEF Held
  <2> QED BY <2>3, <2>4, RecordHolds
<1>4. CASE SpawnMarkFailed(d)
  <2>1. /\ Failed(db[d]).ready /\ Failed(db[d]).close = db[d].close
        /\ Failed(db[d]).spawn = "done" /\ db[d].spawn = "failing"
    BY <1>0, <1>4 DEF DbRec, Failed, SpawnMarkFailed
  <2>2. Held(Failed(db[d]))
    BY <1>0, <2>1 DEF Held
  <2> QED BY <1>4, <2>2, RecordHolds DEF SpawnMarkFailed
<1>5. CASE SpawnRemoved(d)
  <2> DEFINE r == [db[d] EXCEPT !.spawn = "done", !.listed = FALSE,
                                !.spawnError = TRUE, !.ready = TRUE]
  <2>1. r.ready /\ r.close = db[d].close /\ r.spawn = "done"
    BY <1>0 DEF DbRec
  <2>2. db' = [db EXCEPT ![d] = r]
    BY <1>5 DEF SpawnRemoved
  <2> HIDE DEF r
  <2>3. Held(r)
    BY <1>0, <2>1 DEF Held
  <2> QED BY <2>2, <2>3, RecordHolds
<1> QED BY <1>1, <1>2, <1>3, <1>4, <1>5 DEF SpawnStep

\* What the steps of a pass write into the worker.
LEMMA ShapesHold ==
  ASSUME AnalysisInv, Holding, NEW d \in Dbs, NEW n,
         \/ db' = [db EXCEPT ![d] = Dropped(@)]
         \/ db' = [db EXCEPT ![d] = Lost(@)]
         \/ db' = [db EXCEPT ![d] = WithError(@, n)]
         \/ db' = [db EXCEPT ![d] = WithError(Lost(@), n)]
         \/ db' = [db EXCEPT ![d] = [@ EXCEPT !.last = n, !.analyzed = TRUE,
                                              !.error = FALSE]]
         \/ db' = [db EXCEPT ![d].state = "DEAD"]
         \/ UNCHANGED db
  PROVE  Holding'
<1>1. db[d] \in DbRec
  BY DEF AnalysisInv, TypeOK
<1> DEFINE Same(r) == /\ r.spawn = db[d].spawn
                      /\ r.ready = db[d].ready
                      /\ r.close = db[d].close
           s == [db[d] EXCEPT !.last = n, !.analyzed = TRUE, !.error = FALSE]
           t == [db[d] EXCEPT !.state = "DEAD"]
<1>2. /\ Same(Dropped(db[d])) /\ Same(Lost(db[d])) /\ Same(WithError(db[d], n))
      /\ Same(WithError(Lost(db[d]), n))
  BY <1>1 DEF DbRec, Dropped, Lost, WithError
<1>3. Same(s) /\ Same(t)
  BY <1>1 DEF DbRec
<1>4. \/ UNCHANGED db
      \/ \E r \in {Dropped(db[d]), Lost(db[d]), WithError(db[d], n),
                   WithError(Lost(db[d]), n), s, t} : db' = [db EXCEPT ![d] = r]
  OBVIOUS
<1>5. CASE UNCHANGED db
  BY <1>5 DEF Holding
<1> HIDE DEF s, t
<1> QED BY <1>2, <1>3, <1>4, <1>5, RecordStays

LEMMA PassHolds ==
  ASSUME AnalysisInv, Holding, NEW d \in Dbs, NEW n \in DOMAIN passes[d],
         \/ PassStep(d, n)
         \/ PassSucceeds(d, n)
         \/ PassFails(d, n)
         \/ PassLosesWorker(d, n)
         \/ PassRefreshed(d, n)
  PROVE  Holding'
<1>1. CASE PassCalls(d, n) \/ PassLost(d, n)
  BY <1>1, ShapesHold DEF PassCalls, PassLost
<1>2. CASE PassEnds(d, n) \/ PassCancelled(d, n) \/ PassRefreshed(d, n)
  BY <1>2, ShapesHold DEF PassEnds, PassCancelled, PassRefreshed
<1>3. CASE PassSucceeds(d, n)
  BY <1>3, ShapesHold DEF PassSucceeds
<1>4. CASE PassFails(d, n) \/ PassLosesWorker(d, n)
  BY <1>4, ShapesHold DEF PassFails, PassLosesWorker
<1> QED BY <1>1, <1>2, <1>3, <1>4 DEF PassStep

LEMMA CancelHolds ==
  ASSUME AnalysisInv, Holding, NEW d \in Dbs, NEW r \in DbRec, r.spawn = "done",
         CancelAnalysis(d, r)
  PROVE  Holding'
<1> DEFINE a == [r EXCEPT !.close = "awaitAnalysis", !.awaited = r.task]
           b == [r EXCEPT !.close = "saving", !.task = 0]
<1>1. /\ a.spawn = "done" /\ a.close = "awaitAnalysis"
      /\ b.spawn = "done" /\ b.close = "saving"
  BY DEF DbRec
<1>2. db' = [db EXCEPT ![d] = a] \/ db' = [db EXCEPT ![d] = b]
  BY DEF CancelAnalysis
<1> HIDE DEF a, b
<1>3. Held(a) /\ Held(b)
  BY <1>1 DEF Held
<1> QED BY <1>2, <1>3, RecordHolds

LEMMA CloseHolds ==
  ASSUME AnalysisInv, Holding, NEW d \in Dbs, Close(d) \/ CloseStep(d)
  PROVE  Holding'
<1>0. db[d] \in DbRec /\ Held(db[d])
  BY DEF AnalysisInv, TypeOK, Holding
<1>1. CASE Close(d)
  <2> DEFINE r == [db[d] EXCEPT !.listed = FALSE]
             q == [CancelSpawn(r) EXCEPT !.close = "awaitSpawn"]
  <2>1. r \in DbRec /\ r.spawn = db[d].spawn
    BY <1>0 DEF DbRec
  <2>2. q.close = "awaitSpawn" /\ q.spawn \in {"done", "removing"}
    BY <1>0 DEF DbRec, CancelSpawn
  <2>3. \/ r.spawn = "done" /\ CancelAnalysis(d, r)
        \/ db' = [db EXCEPT ![d] = q]
    BY <1>1 DEF Close
  <2> HIDE DEF r, q
  <2>4. Held(q)
    BY <2>2 DEF Held
  <2> QED BY <2>1, <2>3, <2>4, CancelHolds, RecordHolds
<1>2. CASE CloseSpawnOver(d)
  BY <1>0, <1>2, CancelHolds DEF CloseSpawnOver
<1>3. CASE CloseAnalysisOver(d)
  <2> DEFINE q == [Forgotten(db[d]) EXCEPT !.close = "saving", !.awaited = 0]
  <2>1. q.spawn = db[d].spawn /\ q.close = "saving" /\ db[d].close = "awaitAnalysis"
    BY <1>0, <1>3 DEF DbRec, Forgotten, CloseAnalysisOver
  <2>2. db' = [db EXCEPT ![d] = q]
    BY <1>3 DEF CloseAnalysisOver
  <2> HIDE DEF q
  <2>3. Held(q)
    BY <1>0, <2>1 DEF Held
  <2> QED BY <2>2, <2>3, RecordHolds
<1>4. CASE CloseEnds(d)
  <2> DEFINE q == [db[d] EXCEPT !.close = "closed", !.state = "DEAD", !.connected = FALSE]
  <2>1. q.spawn = db[d].spawn /\ q.close = "closed" /\ db[d].close = "saving"
    BY <1>0, <1>4 DEF DbRec, CloseEnds
  <2>2. db' = [db EXCEPT ![d] = q]
    BY <1>4 DEF CloseEnds
  <2> HIDE DEF q
  <2>3. Held(q)
    BY <1>0, <2>1 DEF Held
  <2> QED BY <2>2, <2>3, RecordHolds
<1> QED BY <1>1, <1>2, <1>3, <1>4 DEF CloseStep

LEMMA CallsHold ==
  ASSUME AnalysisInv, Holding, NEW c \in Callers, Calls(c) \/ CallerStep(c)
  PROVE  Holding'
<1>1. \/ UNCHANGED db
      \/ \E d \in Dbs, by \in {"wait", "tool"} : StartPass(d, db[d], by)
  BY DEF Calls, CallerStep, Wait, WaitMulti, RunAnalysis, CancelCall, ChildStarts,
     OpenAwaited, JoinEnds, MultiAnswers, AwaitOpen, AwaitAnalysis
<1>2. CASE UNCHANGED db
  BY <1>2 DEF Holding
<1>3. ASSUME NEW d \in Dbs, NEW by, StartPass(d, db[d], by) PROVE Holding'
  <2> DEFINE q == [db[d] EXCEPT !.error = FALSE, !.task = Len(passes[d]) + 1]
  <2>1. db[d] \in DbRec
    BY DEF AnalysisInv, TypeOK
  <2>2. /\ db' = [db EXCEPT ![d] = q]
        /\ q.ready = db[d].ready /\ q.close = db[d].close /\ q.spawn = db[d].spawn
    BY <1>3, <2>1 DEF StartPass, DbRec
  <2> HIDE DEF q
  <2> QED BY <2>2, RecordStays
<1> QED BY <1>1, <1>2, <1>3

LEMMA NextHolds ==
  ASSUME AnalysisInv, Holding, [Next]_vars PROVE Holding'
<1>1. CASE UNCHANGED vars
  BY <1>1 DEF vars, Holding
<1>2. ASSUME NEW d \in Dbs, WorkerDies(d) \/ CallLosesWorker(d) PROVE Holding'
  BY <1>2, ShapesHold DEF WorkerDies, CallLosesWorker
<1>3. ASSUME NEW d \in Dbs, WorkerAnswers(d) PROVE Holding'
  BY <1>2, <1>3, SpawnHolds, PassHolds DEF WorkerAnswers
<1> QED BY <1>1, <1>3, SpawnHolds, PassHolds, CloseHolds, CallsHold DEF Next

\* A close that is under way: the spawn task it awaits is over or in its own
\* cleanup; the analysis it awaits is over or has been cancelled; or close_database
\* is called, which has a timeout.
CloseGoesOn(d) ==
  \/ db[d].close = "awaitSpawn" /\ db[d].spawn \in {"removing", "done"}
  \/ /\ db[d].close = "awaitAnalysis"
     /\ ~Running(d, db[d].awaited) \/ passes[d][db[d].awaited].cancel
  \/ db[d].close = "saving"
ClosesGoOn == \A d \in Dbs : db[d].close \notin {"no", "closed"} => CloseGoesOn(d)

\* _shutdown_worker never waits for what the worker process may never answer:
\* not for an open nor for an analysis it has not cancelled.
THEOREM ClosesNeverHang == Spec => []ClosesGoOn
<1>1. Init => Holding
  BY DEF Init, Holding, Held, NewDb
<1>2. AnalysisInv /\ Holding /\ [Next]_vars => Holding'
  BY NextHolds
<1>3. AnalysisInv /\ Holding => ClosesGoOn
  BY DEF AnalysisInv, TypeOK, DbRec, ClosePCs, JoinsExist, Holding, Held, ClosesGoOn,
     CloseGoesOn
<1> QED BY <1>1, <1>2, <1>3, AnalysisInvariant, PTL DEF Spec

\* What a request's tasks, one per database, may be about until it is answered;
\* afterwards there are none.
Fits(op) ==
  CASE op = "wait"    -> {"opening", "joining"}
    [] op = "analyze" -> {"joining"}
    [] OTHER          -> {"start", "opening", "joining", "done"}
Others(r, D) ==
  /\ r.answer = "none"
  /\ r.op # "none" => /\ r.want # {}
                      /\ \A e \in r.want \ D : r.child[e] \in Fits(r.op)
Waits(r) == Others(r, {}) \/ (r.answer # "none" /\ \A d \in Dbs : r.child[d] = "none")
Waiting == \A c \in Callers : Waits(caller[c])

LEMMA WaitsReply ==
  ASSUME NEW r \in CallerRec, NEW answer, answer # "none", NEW got
  PROVE  Waits(Reply(r, answer, got))
<1> DEFINE q == Reply(r, answer, got)
<1>1. q.answer = answer /\ q.child = [d \in Dbs |-> "none"]
  BY DEF Reply, CallerRec
<1> HIDE DEF q
<1>2. Waits(q)
  BY <1>1 DEF Waits
<1> QED BY <1>2 DEF q

LEMMA WaitsChild ==
  ASSUME NEW r \in CallerRec, NEW d \in Dbs, Others(r, {d}), NEW n,
         NEW pc \in Fits(r.op)
  PROVE  /\ Waits([r EXCEPT !.child[d] = pc])
         /\ Waits([r EXCEPT !.child[d] = pc, !.on[d] = n])
<1>1. r.child \in [Dbs -> ChildPCs] /\ r.want \subseteq Dbs
  BY DEF CallerRec
<1>2. ASSUME NEW q, q.op = r.op, q.want = r.want, q.answer = r.answer,
             q.child = [r.child EXCEPT ![d] = pc]
      PROVE  Waits(q)
  <2>1. \A e \in Dbs : q.child[e] = IF e = d THEN pc ELSE r.child[e]
    BY <1>1, <1>2
  <2>2. Others(q, {})
    BY <1>1, <1>2, <2>1 DEF Others
  <2> QED BY <2>2 DEF Waits
<1> DEFINE a == [r EXCEPT !.child[d] = pc]
           b == [r EXCEPT !.child[d] = pc, !.on[d] = n]
<1>3. /\ a.op = r.op /\ a.want = r.want /\ a.answer = r.answer
      /\ a.child = [r.child EXCEPT ![d] = pc]
  BY DEF CallerRec
<1>4. /\ b.op = r.op /\ b.want = r.want /\ b.answer = r.answer
      /\ b.child = [r.child EXCEPT ![d] = pc]
  BY DEF CallerRec
<1> HIDE DEF a, b
<1>5. Waits(a) /\ Waits(b)
  BY <1>2, <1>3, <1>4
<1> QED BY <1>5 DEF a, b

LEMMA WaitsReleased ==
  ASSUME NEW r \in CallerRec, NEW d \in Dbs, Others(r, {d}) PROVE Waits(Released(r, d))
<1>1. r.op = "multi" => Waits([r EXCEPT !.child[d] = "done"])
  BY WaitsChild DEF Fits
<1>2. Waits(Reply(r, "analysisFailed", 0)) /\ Waits(Reply(r, "ready", 0))
  BY WaitsReply
<1> QED BY <1>1, <1>2 DEF Released

\* One request changes.
WaitsNext(c) == \E r : Becomes(c, r) /\ Waits(r)

LEMMA WaitsAwaitAnalysis ==
  ASSUME NEW c \in Callers, NEW r \in CallerRec, NEW d \in Dbs, Others(r, {d}),
         AwaitAnalysis(c, r, d)
  PROVE  WaitsNext(c)
<1>1. r.op = "multi" => Waits([r EXCEPT !.child[d] = "done"])
  BY WaitsChild DEF Fits
<1>2. Waits(Reply(r, "spawnFailed", 0)) /\ Waits(Released(r, d))
  BY WaitsReply, WaitsReleased
<1>3. \A n : Waits(Joined(r, d, n))
  <2>1. "joining" \in Fits(r.op)
    BY DEF Fits
  <2> QED BY <2>1, WaitsChild DEF Joined
<1>4. \/ r.op = "multi" /\ Becomes(c, [r EXCEPT !.child[d] = "done"])
      \/ Becomes(c, Reply(r, "spawnFailed", 0))
      \/ Becomes(c, Released(r, d))
      \/ Becomes(c, Joined(r, d, db[d].task))
      \/ Becomes(c, Joined(r, d, Len(passes[d]) + 1))
  BY DEF AwaitAnalysis
<1> QED BY <1>1, <1>2, <1>3, <1>4 DEF WaitsNext

LEMMA WaitsAwaitOpen ==
  ASSUME NEW c \in Callers, NEW r \in CallerRec, NEW d \in Dbs, Others(r, {d}),
         r.op # "analyze", AwaitOpen(c, r, d)
  PROVE  WaitsNext(c)
<1>1. CASE Opening(d)
  <2>1. "opening" \in Fits(r.op)
    BY DEF Fits
  <2>2. Waits([r EXCEPT !.child[d] = "opening"])
    BY <2>1, WaitsChild
  <2> QED BY <1>1, <2>2 DEF AwaitOpen, WaitsNext
<1>2. CASE ~Opening(d)
  BY <1>2, WaitsAwaitAnalysis DEF AwaitOpen
<1> QED BY <1>1, <1>2

LEMMA NewCallOthers ==
  ASSUME NEW op \in {"wait", "analyze"}, NEW d \in Dbs
  PROVE  /\ NewCall(op, {d}) \in CallerRec
         /\ Others(NewCall(op, {d}), {d})
         /\ NewCall(op, {d}).op = op
<1>1. NewCall(op, {d}) \in CallerRec
  BY NewCallFine DEF Fine
<1>2. /\ NewCall(op, {d}).op = op /\ NewCall(op, {d}).want = {d}
      /\ NewCall(op, {d}).answer = "none"
  BY DEF NewCall
<1> QED BY <1>1, <1>2 DEF Others

\* A request with a task that is not over has no answer yet, and may replace it.
LEMMA TaskOthers ==
  ASSUME AnalysisInv, Hearing, Waiting, NEW c \in Callers, NEW d \in Dbs,
         caller[c].child[d] # "none"
  PROVE  /\ caller[c] \in CallerRec
         /\ Others(caller[c], {d})
         /\ caller[c].child[d] = "start" => caller[c].op # "analyze"
<1>1. caller[c] \in CallerRec /\ Hears(caller[c], db) /\ Waits(caller[c])
  BY DEF AnalysisInv, TypeOK, Hearing, Waiting
<1>2. Others(caller[c], {})
  BY <1>1 DEF Waits
<1>3. d \in caller[c].want
  BY <1>1 DEF Hears
<1> QED BY <1>1, <1>2, <1>3 DEF Others, Fits

LEMMA CallsWait ==
  ASSUME AnalysisInv, Hearing, Waiting, NEW c \in Callers, Calls(c) \/ CallerStep(c)
  PROVE  WaitsNext(c)
<1>0. caller[c] \in CallerRec
  BY DEF AnalysisInv, TypeOK
<1>1. ASSUME NEW d \in Dbs, Wait(c, d) PROVE WaitsNext(c)
  <2>1. AwaitOpen(c, NewCall("wait", {d}), d)
    BY <1>1 DEF Wait
  <2> QED BY <2>1, NewCallOthers, WaitsAwaitOpen
<1>2. ASSUME NEW d \in Dbs, RunAnalysis(c, d) PROVE WaitsNext(c)
  <2> DEFINE r == NewCall("analyze", {d})
  <2>1. r \in CallerRec /\ Others(r, {d})
    BY NewCallOthers
  <2>2. PICK n : Becomes(c, Joined(r, d, n))
    BY <1>2 DEF RunAnalysis
  <2> HIDE DEF r
  <2>3. "joining" \in Fits(r.op)
    BY DEF Fits
  <2>4. Waits(Joined(r, d, n))
    BY <2>1, <2>3, WaitsChild DEF Joined
  <2> QED BY <2>2, <2>4 DEF WaitsNext
<1>3. ASSUME NEW D \in (SUBSET Dbs) \ {{}}, WaitMulti(c, D) PROVE WaitsNext(c)
  <2> DEFINE r == [NewCall("multi", D) EXCEPT
                     !.child = [d \in Dbs |-> IF d \in D THEN "start" ELSE "none"]]
  <2>1. /\ r.op = "multi" /\ r.want = D /\ r.answer = "none"
        /\ \A d \in Dbs : r.child[d] = IF d \in D THEN "start" ELSE "none"
    BY DEF NewCall
  <2>2. Becomes(c, r)
    BY <1>3 DEF WaitMulti
  <2> HIDE DEF r
  <2>3. Fits(r.op) = {"start", "opening", "joining", "done"}
    BY <2>1 DEF Fits
  <2>4. D # {} /\ D \subseteq Dbs
    <3>1. D \notin {{}} /\ D \in SUBSET Dbs
      OBVIOUS
    <3>2. D # {}
      BY <3>1, Zenon
    <3> QED BY <3>1, <3>2
  <2>5. Waits(r)
    BY <2>1, <2>3, <2>4 DEF Waits, Others
  <2> QED BY <2>2, <2>5 DEF WaitsNext
<1>4. ASSUME NEW d \in Dbs, ChildStarts(c, d) PROVE WaitsNext(c)
  BY <1>4, TaskOthers, WaitsAwaitOpen DEF ChildStarts
<1>5. ASSUME NEW d \in Dbs, OpenAwaited(c, d) PROVE WaitsNext(c)
  BY <1>5, TaskOthers, WaitsAwaitAnalysis DEF OpenAwaited
<1>6. ASSUME NEW d \in Dbs, JoinEnds(c, d) PROVE WaitsNext(c)
  <2> DEFINE r == caller[c]
  <2>1. r \in CallerRec /\ Others(r, {d})
    BY <1>6, TaskOthers DEF JoinEnds
  <2>2. \/ r.op = "multi" /\ Becomes(c, [r EXCEPT !.child[d] = "done"])
        \/ Becomes(c, Released(r, d))
        \/ \E a \in {"cancelled", "analysisFailed", "noResult", "result"} : \E n :
             Becomes(c, Reply(r, a, n))
    BY <1>6 DEF JoinEnds
  <2> HIDE DEF r
  <2>3. r.op = "multi" => Waits([r EXCEPT !.child[d] = "done"])
    BY <2>1, WaitsChild DEF Fits
  <2>4. \A a \in {"cancelled", "analysisFailed", "noResult", "result"} : \A n :
          Waits(Reply(r, a, n))
    BY <2>1, WaitsReply
  <2> QED BY <2>1, <2>2, <2>3, <2>4, WaitsReleased DEF WaitsNext
<1>7. CASE MultiAnswers(c)
  <2>1. PICK a \in {"ready", "failed", "pending"} : Becomes(c, Reply(caller[c], a, 0))
    BY <1>7 DEF MultiAnswers
  <2> QED BY <1>0, <2>1, WaitsReply DEF WaitsNext
<1>8. CASE CancelCall(c)
  BY <1>0, <1>8, WaitsReply DEF CancelCall, WaitsNext
<1> QED BY <1>1, <1>2, <1>3, <1>4, <1>5, <1>6, <1>7, <1>8 DEF Calls, CallerStep

\* Only the requests' own steps change them.
LEMMA OtherStepsSpare ==
  ASSUME [Next]_vars, ~UNCHANGED caller
  PROVE  \E c \in Callers : Calls(c) \/ CallerStep(c)
<1>1. ASSUME NEW d \in Dbs, SpawnStep(d) PROVE UNCHANGED caller
  BY <1>1 DEF SpawnStep, SpawnStart, SpawnReady, SpawnMarkFailed, SpawnRemoved
<1>2. ASSUME NEW d \in Dbs, NEW n \in DOMAIN passes[d], PassStep(d, n)
      PROVE  UNCHANGED caller
  BY <1>2 DEF PassStep, PassCalls, PassLost, PassEnds, PassCancelled
<1>3. ASSUME NEW d \in Dbs, Close(d) \/ CloseStep(d) PROVE UNCHANGED caller
  BY <1>3 DEF Close, CloseStep, CloseSpawnOver, CloseAnalysisOver, CloseEnds
<1>4. ASSUME NEW d \in Dbs, WorkerAnswers(d) PROVE UNCHANGED caller
  BY <1>4 DEF WorkerAnswers, SpawnOpens, SpawnFails, WorkerDies, CallLosesWorker,
     PassSucceeds, PassFails, PassLosesWorker, PassRefreshed
<1>5. CASE UNCHANGED vars
  BY <1>5 DEF vars
<1> QED BY <1>1, <1>2, <1>3, <1>4, <1>5 DEF Next

LEMMA NextWaits ==
  ASSUME AnalysisInv, Hearing, Waiting, [Next]_vars PROVE Waiting'
<1>1. CASE UNCHANGED caller
  BY <1>1 DEF Waiting
<1>2. ASSUME NEW c \in Callers, Calls(c) \/ CallerStep(c) PROVE Waiting'
  <2>1. PICK r : Becomes(c, r) /\ Waits(r)
    BY <1>2, CallsWait DEF WaitsNext
  <2>2. \A e \in Callers : caller'[e] = IF e = c THEN r ELSE caller[e]
    BY <2>1 DEF AnalysisInv, TypeOK, Becomes
  <2> QED BY <2>1, <2>2 DEF Waiting
<1> QED BY <1>1, <1>2, OtherStepsSpare

\* What a request waits for: its own turn; an open that is under way or has
\* signalled; a pass that exists.
WaitGoesOn(c, d) ==
  \/ caller[c].child[d] \in {"start", "done"}
  \/ caller[c].child[d] = "opening" /\ (db[d].ready \/ db[d].spawn # "done")
  \/ caller[c].child[d] = "joining" /\ caller[c].on[d] \in DOMAIN passes[d]
WaitsGoOn ==
  \A c \in Callers : ~Free(c) =>
    /\ caller[c].want # {}
    /\ \A d \in caller[c].want : WaitGoesOn(c, d) \/ db[d].close # "no"

\* No request waits for nothing: whatever the spawn, the passes and the other
\* requests did, each of its databases is one whose open or pass is still to
\* end, or the request has its turn.  A close alone may leave it waiting, when it
\* cuts an open short.
THEOREM RequestsNeverHang == Spec => []WaitsGoOn
<1>1. Init => Hearing /\ Waiting /\ Holding
  <2>1. Hears(NewCall("none", {}), db) /\ Waits(NewCall("none", {}))
    BY NewCallHears DEF Waits, Others, NewCall
  <2>2. \A auto \in BOOLEAN : Held(NewDb(auto))
    BY DEF Held, NewDb
  <2>3. Init => Hearing /\ Waiting
    BY <2>1 DEF Init, Hearing, Waiting
  <2>4. Init => Holding
    BY <2>2 DEF Init, Holding
  <2> QED BY <2>3, <2>4
<1>2. AnalysisInv /\ Hearing /\ [Next]_vars => Hearing'
  BY NextHears
<1>3. AnalysisInv /\ Hearing /\ Waiting /\ [Next]_vars => Waiting'
  BY NextWaits
<1>4. AnalysisInv /\ Holding /\ [Next]_vars => Holding'
  BY NextHolds
<1>5. AnalysisInv /\ Waiting /\ Holding => WaitsGoOn
  <2> SUFFICES ASSUME AnalysisInv, Waiting, Holding, NEW c \in Callers, ~Free(c)
               PROVE  /\ caller[c].want # {}
                      /\ \A d \in caller[c].want : WaitGoesOn(c, d) \/ db[d].close # "no"
    BY DEF WaitsGoOn
  <2>1. Others(caller[c], {}) /\ caller[c].op # "none" /\ caller[c].want \subseteq Dbs
    BY DEF Waiting, Waits, Free, AnalysisInv, TypeOK, CallerRec
  <2>2. ASSUME NEW d \in caller[c].want
        PROVE  WaitGoesOn(c, d) \/ db[d].close # "no"
    <3>1. caller[c].child[d] \in {"start", "opening", "joining", "done"}
      BY <2>1 DEF Others, Fits
    <3>2. Held(db[d])
      BY <2>1 DEF Holding
    <3> QED BY <2>1, <3>1, <3>2 DEF Held, WaitGoesOn, AnalysisInv, JoinsExist
  <2> QED BY <2>1, <2>2 DEF Others
<1> QED BY <1>1, <1>2, <1>3, <1>4, <1>5, AnalysisInvariant, PTL DEF Spec
=============================================================================
