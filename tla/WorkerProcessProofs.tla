------------------------- MODULE WorkerProcessProofs -------------------------
(* Proofs about WorkerProcess: the queue, and what the sentinel means. *)
EXTENDS WorkerProcess, TLAPS

CallTypes == [Calls -> [op : Ops, fut : Futures, checked : BOOLEAN,
                        withdrawn : BOOLEAN]]

MainTypes == [pc : MainPCs, job : Calls \cup {None},
              outcome : {"none", "step", "result", "error", "interrupted"},
              why : {"none", "stop", "signal", "invalid"},
              end : {"none", "exit", "cut", "usr1", "killed"}]

-----------------------------------------------------------------------------
(* The queue at its ends *)

LEMMA Appended ==
  ASSUME NEW S, NEW q \in Seq(S), NEW x \in S
  PROVE  /\ Append(q, x) \in Seq(S)
         /\ DOMAIN Append(q, x) = DOMAIN q \cup {Len(q) + 1}
         /\ Len(q) + 1 \notin DOMAIN q
         /\ \A i \in DOMAIN q : Append(q, x)[i] = q[i]
         /\ Append(q, x)[Len(q) + 1] = x
OBVIOUS

LEMMA Popped ==
  ASSUME NEW S, NEW q \in Seq(S), q # <<>>
  PROVE  /\ Tail(q) \in Seq(S)
         /\ Head(q) \in S
         /\ 1 \in DOMAIN q /\ Head(q) = q[1]
         /\ \A i \in DOMAIN Tail(q) : /\ i + 1 \in DOMAIN q
                                      /\ i + 1 # 1
                                      /\ Tail(q)[i] = q[i + 1]
         /\ \A i, j \in DOMAIN Tail(q) : i + 1 = j + 1 => i = j
OBVIOUS

-----------------------------------------------------------------------------
(* The event loop's steps *)

LEMMA SubmittedInv ==
  ASSUME ProcessInv, NEW c \in Calls, NEW op \in Ops, NEW checked \in BOOLEAN,
         Submitted(c, op, checked), call[c].fut \in {"none", "step"},
         loop # "ended", UNCHANGED <<main, loop, db, flag, usr1>>
  PROVE  ProcessInv'
<1>1. /\ call' \in CallTypes
      /\ call'[c].fut = "pending"
      /\ \A d \in Calls : d # c => call'[d] = call[d]
  <2> DEFINE r == [op |-> op, fut |-> "pending", checked |-> checked,
                   withdrawn |-> call[c].withdrawn]
  <2>1. call \in CallTypes
    BY DEF ProcessInv, TypeOK, CallTypes
  <2>2. call' = [call EXCEPT ![c] = r]
    BY <2>1 DEF Submitted, CallTypes
  <2>3. r \in [op : Ops, fut : Futures, checked : BOOLEAN, withdrawn : BOOLEAN]
    BY <2>1 DEF CallTypes, Futures
  <2> QED BY <2>1, <2>2, <2>3 DEF CallTypes
<1>2. /\ queue' \in Seq(Calls \cup {Stop})
      /\ DOMAIN queue' = DOMAIN queue \cup {Len(queue) + 1}
      /\ Len(queue) + 1 \notin DOMAIN queue
      /\ \A i \in DOMAIN queue : queue'[i] = queue[i]
      /\ queue'[Len(queue) + 1] = c
  BY Appended DEF Submitted, ProcessInv, TypeOK
<1>3. \A i \in DOMAIN queue : queue[i] \in Calls \cup {Stop}
  BY DEF ProcessInv, TypeOK
<1>4. TypeOK'
  BY <1>1, <1>2 DEF ProcessInv, TypeOK, CallTypes
<1>5. QueueOK'
  <2> DEFINE D(d) == call'[d].fut \in {"pending", "cancelled"}
  <2>1. ~Dispatched(c)
    BY DEF Dispatched
  <2>2. \A i \in DOMAIN queue : queue[i] # c
    BY <2>1, ProcessAssumption DEF ProcessInv, QueueOK
  <2>3. \A d \in Calls : Dispatched(d) => D(d)
    BY <1>1 DEF Dispatched
  <2>4. D(c)
    BY <1>1
  <2>5. \A i \in DOMAIN queue' : queue'[i] # Stop => D(queue'[i])
    <3>1. \A i \in DOMAIN queue : queue[i] # Stop => D(queue[i])
      BY <1>3, <2>3 DEF ProcessInv, QueueOK
    <3> HIDE DEF D
    <3> QED BY <1>2, <2>4, <3>1
  <2>6. \A i, j \in DOMAIN queue' :
          queue'[i] = queue'[j] /\ queue'[i] # Stop => i = j
    BY <1>2, <2>2 DEF ProcessInv, QueueOK
  <2>7. AtWork' => /\ main'.job \in Calls /\ D(main'.job)
                  /\ \A i \in DOMAIN queue' : queue'[i] # main'.job
    <3>1. SUFFICES ASSUME AtWork
                   PROVE  /\ main.job \in Calls /\ D(main.job)
                          /\ \A i \in DOMAIN queue' : queue'[i] # main.job
      BY DEF AtWork
    <3>2. main.job \in Calls /\ Dispatched(main.job) /\ main.job # c
      BY <2>1, <3>1 DEF ProcessInv, QueueOK
    <3>3. \A i \in DOMAIN queue : queue[i] # main.job
      BY <3>1 DEF ProcessInv, QueueOK
    <3> QED BY <1>2, <2>3, <3>2, <3>3
  <2>8. (main.pc = "waiting" \/ AtWork => main.why = "none" /\ main.end = "none")'
    BY DEF ProcessInv, QueueOK, AtWork
  <2> QED BY <2>5, <2>6, <2>7, <2>8 DEF QueueOK, Dispatched
<1>6. StopIsLast'
  BY <1>1, <1>2, ProcessAssumption DEF ProcessInv, StopIsLast
<1>7. StopDrains' /\ ExitSaves'
  BY DEF ProcessInv, StopIsLast, StopDrains, ExitSaves
<1> QED BY <1>4, <1>5, <1>6, <1>7 DEF ProcessInv

\* Steps that leave the queue alone and open no call.
LEMMA CallsKept ==
  ASSUME ProcessInv, call' \in CallTypes, queue' = queue, main' = main,
         loop' = loop, db' = db, flag' = flag, usr1' \in BOOLEAN,
         \A c \in Calls : \/ call'[c].fut = call[c].fut
                         \/ /\ call[c].fut \in {"pending", "step"}
                            /\ call'[c].fut = "cancelled"
  PROVE  ProcessInv'
<1>1. TypeOK'
  BY DEF ProcessInv, TypeOK, CallTypes
<1>2. \A c \in Calls : /\ Dispatched(c) => Dispatched(c)'
                       /\ Open(c)' => Open(c)
  BY DEF Dispatched, Open
<1>3. \A i \in DOMAIN queue : queue[i] \in Calls \cup {Stop}
  BY DEF ProcessInv, TypeOK
<1>4. QueueOK'
  <2>1. \A i \in DOMAIN queue : queue[i] # Stop => Dispatched(queue[i])'
    BY <1>2, <1>3 DEF ProcessInv, QueueOK
  <2>2. AtWork => Dispatched(main.job)'
    BY <1>2 DEF ProcessInv, QueueOK
  <2> QED BY <2>1, <2>2 DEF ProcessInv, QueueOK, AtWork, Dispatched
<1>5. StopIsLast' /\ StopDrains' /\ ExitSaves'
  BY <1>2 DEF ProcessInv, StopIsLast, StopDrains, ExitSaves, Open
<1> QED BY <1>1, <1>4, <1>5 DEF ProcessInv

LEMMA LoopInv ==
  ASSUME ProcessInv, LoopStep
  PROVE  ProcessInv'
<1>1. CASE StdinCloses
  <2>1. TypeOK'
    BY <1>1 DEF StdinCloses, StdinQueues, ProcessInv, TypeOK
  <2> QED BY <1>1, <2>1 DEF StdinCloses, StdinQueues, ProcessInv, QueueOK, AtWork,
             Dispatched, StopIsLast, StopDrains, ExitSaves, Open
<1>2. CASE LoopEnds
  <2>1. /\ queue' \in Seq(Calls \cup {Stop})
        /\ DOMAIN queue' = DOMAIN queue \cup {Len(queue) + 1}
        /\ \A i \in DOMAIN queue : queue'[i] = queue[i]
        /\ queue'[Len(queue) + 1] = Stop
    BY <1>2, Appended DEF LoopEnds, Shutdown, ProcessInv, TypeOK
  <2>2. loop' = "ended" /\ UNCHANGED <<call, main, db, flag, usr1>>
    BY <1>2 DEF LoopEnds
  <2>3. TypeOK'
    BY <2>1, <2>2 DEF ProcessInv, TypeOK
  <2>4. QueueOK'
    BY <2>1, <2>2, ProcessAssumption DEF ProcessInv, QueueOK, AtWork, Dispatched
  <2>5. main.why = "signal" \/ \A c \in Calls : ~Open(c)
    BY <1>2 DEF LoopEnds, ProcessInv, StopIsLast, Open
  <2>6. StopIsLast' /\ StopDrains' /\ ExitSaves'
    BY <2>2, <2>5 DEF ProcessInv, StopIsLast, StopDrains, ExitSaves, Open
  <2> QED BY <2>3, <2>4, <2>6 DEF ProcessInv
<1>3. CASE \E c \in Calls : Submit(c)
  BY <1>3, SubmittedInv DEF Submit
<1>4. CASE \E c \in Calls : Resume(c)
  BY <1>4, SubmittedInv DEF Resume, Ops
<1>5. CASE \E c \in Calls : Withdraw(c)
  <2>1. PICK c \in Calls : Withdraw(c)
    BY <1>5
  <2>2. call' \in CallTypes /\ \A d \in Calls : call'[d].fut = call[d].fut
    BY <2>1 DEF Withdraw, ProcessInv, TypeOK, CallTypes
  <2>3. /\ queue' = queue /\ main' = main /\ loop' = loop /\ db' = db
        /\ flag' = flag /\ usr1' \in BOOLEAN
    BY <2>1 DEF Withdraw
  <2> QED BY <2>2, <2>3, CallsKept
<1>6. CASE \E c \in Calls : CancelFuture(c)
  <2>1. PICK c \in Calls : CancelFuture(c)
    BY <1>6
  <2>2. /\ call' \in CallTypes
        /\ call'[c].fut = "cancelled"
        /\ \A d \in Calls : d # c => call'[d] = call[d]
    BY <2>1 DEF CancelFuture, ProcessInv, TypeOK, CallTypes, Futures
  <2>3. /\ call[c].fut \in {"pending", "step"}
        /\ queue' = queue /\ main' = main /\ loop' = loop /\ db' = db
        /\ flag' = flag /\ usr1' \in BOOLEAN
    BY <2>1 DEF CancelFuture, ProcessInv, TypeOK
  <2>4. \A d \in Calls : \/ call'[d].fut = call[d].fut
                         \/ /\ call[d].fut \in {"pending", "step"}
                            /\ call'[d].fut = "cancelled"
    BY <2>2, <2>3
  <2> QED BY <2>2, <2>3, <2>4, CallsKept
<1> QED BY <1>1, <1>2, <1>3, <1>4, <1>5, <1>6 DEF LoopStep

-----------------------------------------------------------------------------
(* The main thread's steps *)

\* Steps in which the main thread leaves the loop, or goes on outside of it.
LEMMA Leaves ==
  ASSUME ProcessInv, main' \in MainTypes, ~AtWork', main'.pc # "waiting",
         UNCHANGED <<call, queue, loop>>, db' \in {"closed", "clean", "dirty"},
         flag' \in BOOLEAN, usr1' \in BOOLEAN,
         \/ main'.why = main.why
         \/ main.why = "none" /\ main'.why \in {"signal", "invalid"},
         main'.end = "exit" => db' = "closed"
  PROVE  ProcessInv'
<1>1. TypeOK'
  BY DEF ProcessInv, TypeOK, MainTypes
<1>2. QueueOK'
  BY DEF ProcessInv, QueueOK, AtWork, Dispatched
<1>3. StopIsLast' /\ StopDrains' /\ ExitSaves'
  BY DEF ProcessInv, StopIsLast, StopDrains, ExitSaves, Open
<1> QED BY <1>1, <1>2, <1>3 DEF ProcessInv

LEMMA TakeInv ==
  ASSUME ProcessInv, Take
  PROVE  ProcessInv'
<1> DEFINE h == Head(queue)
<1>1. /\ queue' \in Seq(Calls \cup {Stop})
      /\ h \in Calls \cup {Stop}
      /\ 1 \in DOMAIN queue /\ h = queue[1]
      /\ \A i \in DOMAIN queue' : /\ i + 1 \in DOMAIN queue
                                  /\ i + 1 # 1
                                  /\ queue'[i] = queue[i + 1]
      /\ \A i, j \in DOMAIN queue' : i + 1 = j + 1 => i = j
  BY Popped DEF Take, ProcessInv, TypeOK
<1>2. /\ main.pc = "waiting" /\ main.why = "none" /\ main \in MainTypes
      /\ UNCHANGED <<call, loop, db, usr1>>
  BY DEF Take, ProcessInv, TypeOK, QueueOK, MainTypes
<1>3. \/ /\ h = Stop
         /\ main' = [main EXCEPT !.pc = "left", !.why = "stop"]
      \/ /\ h # Stop
         /\ main' = main
      \/ /\ h # Stop
         /\ main' = [main EXCEPT !.pc = "running", !.job = h]
  BY DEF Take, Taken
<1>4. main' \in MainTypes
  BY <1>1, <1>2, <1>3 DEF MainTypes, MainPCs
<1>5. TypeOK'
  BY <1>1, <1>2, <1>4 DEF Take, ProcessInv, TypeOK, MainTypes
<1>6. QueueOK'
  <2>1. \A i \in DOMAIN queue' : queue'[i] # Stop => Dispatched(queue'[i])
    BY <1>1 DEF ProcessInv, QueueOK
  <2>2. \A i, j \in DOMAIN queue' :
          queue'[i] = queue'[j] /\ queue'[i] # Stop => i = j
    BY <1>1 DEF ProcessInv, QueueOK
  <2>3. h # Stop => /\ h \in Calls /\ Dispatched(h)
                   /\ \A i \in DOMAIN queue' : queue'[i] # h
    BY <1>1 DEF ProcessInv, QueueOK
  <2>4. AtWork' => /\ main'.job = h /\ h # Stop
                  /\ main'.why = "none" /\ main'.end = "none"
    BY <1>2, <1>3 DEF AtWork, MainTypes, ProcessInv, QueueOK
  <2>5. main'.pc = "waiting" => main'.why = "none" /\ main'.end = "none"
    BY <1>2, <1>3 DEF MainTypes, ProcessInv, QueueOK
  <2> QED BY <1>2, <2>1, <2>2, <2>3, <2>4, <2>5 DEF QueueOK, Dispatched
<1>7. StopIsLast' /\ StopDrains' /\ ExitSaves'
  <2>1. h = Stop => loop = "ended"
    BY <1>1 DEF ProcessInv, StopIsLast
  <2>2. \A i \in DOMAIN queue' : queue'[i] = Stop => loop' = "ended"
    BY <1>1, <1>2 DEF ProcessInv, StopIsLast
  <2>3. main'.end = main.end /\ main'.why \in {"none", "stop"}
        /\ (main'.why = "stop" => h = Stop)
    BY <1>2, <1>3 DEF MainTypes
  <2> QED BY <1>2, <2>1, <2>2, <2>3
          DEF ProcessInv, StopIsLast, StopDrains, ExitSaves, Open
<1> QED BY <1>5, <1>6, <1>7 DEF ProcessInv

LEMMA EffectsType ==
  ASSUME TypeOK, NEW c \in Calls, NEW o
  PROVE  Effects(c, o) \subseteq {"closed", "clean", "dirty"}
BY DEF TypeOK, Effects

LEMMA JobEndsInv ==
  ASSUME ProcessInv, JobEnds
  PROVE  ProcessInv'
<1>1. /\ main \in MainTypes /\ main.pc = "running" /\ main.job \in Calls
      /\ main.why = "none" /\ main.end = "none" /\ Dispatched(main.job)
      /\ UNCHANGED <<call, queue, loop, flag, usr1>>
  BY DEF JobEnds, ProcessInv, TypeOK, QueueOK, AtWork, MainTypes
<1>2. PICK o \in Outcomes(main.job) :
         /\ db' \in Effects(main.job, o)
         /\ main' = IF call[main.job].fut = "cancelled"
                    THEN [main EXCEPT !.pc = "waiting", !.job = None]
                    ELSE [main EXCEPT !.pc = "answering", !.outcome = o]
  BY DEF JobEnds
<1>3. o \in {"step", "result", "error", "interrupted"}
  BY DEF Outcomes
<1>4. db' \in {"closed", "clean", "dirty"}
  BY <1>1, <1>2, EffectsType DEF ProcessInv
<1>5. /\ main' \in MainTypes
      /\ main'.why = "none" /\ main'.end = main.end
      /\ \/ main'.pc = "waiting"
         \/ main'.pc = "answering" /\ main'.job = main.job
  <2>1. CASE main' = [main EXCEPT !.pc = "waiting", !.job = None]
    BY <1>1, <2>1 DEF MainTypes, MainPCs
  <2>2. CASE main' = [main EXCEPT !.pc = "answering", !.outcome = o]
    BY <1>1, <1>3, <2>2 DEF MainTypes, MainPCs
  <2> QED BY <1>2, <2>1, <2>2
<1>6. TypeOK'
  BY <1>1, <1>4, <1>5 DEF ProcessInv, TypeOK, MainTypes
<1>7. QueueOK'
  BY <1>1, <1>5 DEF ProcessInv, QueueOK, AtWork, Dispatched
<1>8. StopIsLast' /\ StopDrains' /\ ExitSaves'
  BY <1>1, <1>5 DEF ProcessInv, StopIsLast, StopDrains, ExitSaves, Open
<1> QED BY <1>6, <1>7, <1>8 DEF ProcessInv

LEMMA AnswerInv ==
  ASSUME ProcessInv, Answer
  PROVE  ProcessInv'
<1> DEFINE c == main.job
<1>1. /\ main \in MainTypes /\ main.pc = "answering" /\ c \in Calls
      /\ main.why = "none" /\ main.end = "none" /\ Dispatched(c)
      /\ call \in CallTypes
      /\ UNCHANGED <<queue, loop, db, flag, usr1>>
  BY DEF Answer, ProcessInv, TypeOK, QueueOK, AtWork, MainTypes, CallTypes
<1>2. CASE call[c].fut = "cancelled"
  <2>1. main' = [main EXCEPT !.pc = "left", !.job = None, !.why = "invalid"]
        /\ call' = call
    BY <1>2 DEF Answer
  <2>2. /\ main' \in MainTypes /\ main'.pc = "left"
        /\ main'.why = "invalid" /\ main'.end = "none"
    BY <1>1, <2>1 DEF MainTypes, MainPCs
  <2> QED BY <1>1, <2>1, <2>2, Leaves DEF AtWork, ProcessInv, TypeOK
<1>3. CASE call[c].fut # "cancelled"
  <2>1. /\ call' = [call EXCEPT ![c].fut = main.outcome]
        /\ main' = [main EXCEPT !.pc = "waiting", !.job = None]
    BY <1>3 DEF Answer
  <2>2. /\ main' \in MainTypes /\ main'.pc = "waiting"
        /\ main'.why = "none" /\ main'.end = "none"
    BY <1>1, <2>1 DEF MainTypes, MainPCs
  <2>3. /\ call' \in CallTypes
        /\ \A d \in Calls : d # c => call'[d] = call[d]
        /\ call'[c].fut \notin {"exit", "pending"}
    BY <1>1, <2>1 DEF CallTypes, MainTypes, Futures
  <2>4. TypeOK'
    BY <1>1, <2>2, <2>3 DEF ProcessInv, TypeOK, CallTypes, MainTypes
  <2>5. QueueOK'
    <3>1. \A i \in DOMAIN queue : queue[i] # c /\ queue[i] \in Calls \cup {Stop}
      BY <1>1 DEF ProcessInv, QueueOK, AtWork, TypeOK
    <3>2. \A i \in DOMAIN queue :
            queue[i] # Stop => call'[queue[i]].fut \in {"pending", "cancelled"}
      BY <2>3, <3>1 DEF ProcessInv, QueueOK, Dispatched
    <3> QED BY <1>1, <2>2, <3>2 DEF ProcessInv, QueueOK, AtWork, Dispatched
  <2>6. loop # "ended"
    BY <1>1, <1>3 DEF ProcessInv, StopIsLast, Open, Dispatched
  <2>7. StopIsLast' /\ StopDrains' /\ ExitSaves'
    BY <1>1, <2>2, <2>3, <2>6 DEF ProcessInv, StopIsLast, StopDrains, ExitSaves
  <2> QED BY <2>4, <2>5, <2>7 DEF ProcessInv
<1> QED BY <1>2, <1>3

LEMMA FinallyInv ==
  ASSUME ProcessInv, JoinEnds \/ SaveOnExit \/ Kill
  PROVE  ProcessInv'
<1>1. /\ main \in MainTypes
      /\ db \in {"closed", "clean", "dirty"} /\ flag \in BOOLEAN /\ usr1 \in BOOLEAN
      /\ main.end = "exit" => db = "closed"
  BY DEF ProcessInv, TypeOK, MainTypes, ExitSaves
<1>2. CASE JoinEnds
  <2>1. /\ main' \in MainTypes /\ main'.pc = "saving"
        /\ main'.why = main.why /\ main'.end = main.end
    BY <1>1, <1>2 DEF JoinEnds, MainTypes, MainPCs
  <2> QED BY <1>1, <1>2, <2>1, Leaves DEF JoinEnds, AtWork
<1>3. CASE SaveOnExit
  <2>1. /\ main' \in MainTypes /\ main'.pc = "exited" /\ main'.why = main.why
    BY <1>1, <1>3 DEF SaveOnExit, MainTypes, MainPCs
  <2> QED BY <1>1, <1>3, <2>1, Leaves DEF SaveOnExit, Saved, AtWork
<1>4. CASE Kill
  <2>1. /\ main' \in MainTypes /\ main'.pc = "exited"
        /\ main'.why = main.why /\ main'.end = "killed"
    BY <1>1, <1>4 DEF Kill, MainTypes, MainPCs
  <2> QED BY <1>1, <1>4, <2>1, Leaves DEF Kill, AtWork
<1> QED BY <1>2, <1>3, <1>4

-----------------------------------------------------------------------------
(* Signals *)

LEMMA Sigusr1Inv ==
  ASSUME ProcessInv, Sigusr1
  PROVE  ProcessInv'
<1>1. CASE HandlesUsr1
  <2>1. /\ flag' \in BOOLEAN /\ usr1' \in BOOLEAN
        /\ UNCHANGED <<call, queue, main, loop, db>>
    BY <1>1 DEF Sigusr1
  <2> QED BY <2>1 DEF ProcessInv, TypeOK, QueueOK, AtWork, Dispatched, StopIsLast,
             StopDrains, ExitSaves, Open
<1>2. CASE ~HandlesUsr1
  <2>1. /\ main' \in MainTypes /\ main'.pc = "exited"
        /\ main'.why = main.why /\ main'.end = "usr1"
        /\ UNCHANGED <<call, queue, loop, db, flag>> /\ usr1' \in BOOLEAN
    BY <1>2 DEF Sigusr1, ProcessInv, TypeOK, MainTypes, MainPCs
  <2> QED BY <2>1, Leaves DEF AtWork, ProcessInv, TypeOK
<1> QED BY <1>1, <1>2

LEMMA SigtermInv ==
  ASSUME ProcessInv, Sigterm
  PROVE  ProcessInv'
<1>1. /\ main \in MainTypes /\ call \in CallTypes
      /\ db \in {"closed", "clean", "dirty"} /\ flag \in BOOLEAN /\ usr1 \in BOOLEAN
      /\ UNCHANGED <<queue, loop, flag, usr1>>
  BY DEF Sigterm, ProcessInv, TypeOK, MainTypes, CallTypes
<1>2. CASE main.pc = "waiting" \/ main.pc = "answering"
  <2>1. main.why = "none" /\ main.end = "none"
    BY <1>2 DEF ProcessInv, QueueOK, AtWork
  <2>2. /\ main' \in MainTypes /\ main'.pc = "left"
        /\ main'.why = "signal" /\ main'.end = "none"
        /\ UNCHANGED <<call, db>>
    BY <1>1, <1>2, <2>1 DEF Sigterm, MainTypes, MainPCs
  <2> QED BY <1>1, <2>1, <2>2, Leaves DEF AtWork
<1>3. CASE main.pc = "running"
  <2> DEFINE c == main.job
  <2>1. /\ c \in Calls /\ main.why = "none" /\ main.end = "none"
    BY <1>3 DEF ProcessInv, QueueOK, AtWork
  <2>2. /\ main' = [main EXCEPT !.pc = "left", !.job = None, !.why = "signal"]
        /\ call' = [call EXCEPT ![c].fut = IF @ = "cancelled" THEN @ ELSE "exit"]
        /\ db' \in Effects(c, "error")
    BY <1>3 DEF Sigterm
  <2>3. db' \in {"closed", "clean", "dirty"}
    BY <2>1, <2>2, EffectsType DEF ProcessInv
  <2>4. /\ main' \in MainTypes /\ main'.pc = "left"
        /\ main'.why = "signal" /\ main'.end = "none"
    BY <1>1, <2>1, <2>2 DEF MainTypes, MainPCs
  <2>5. /\ call' \in CallTypes
        /\ \A d \in Calls : d # c => call'[d] = call[d]
    BY <1>1, <2>1, <2>2 DEF CallTypes, Futures
  <2>6. TypeOK'
    BY <1>1, <2>3, <2>4, <2>5 DEF ProcessInv, TypeOK, CallTypes, MainTypes
  <2>7. QueueOK'
    <3>1. \A i \in DOMAIN queue : queue[i] # c /\ queue[i] \in Calls \cup {Stop}
      BY <1>3 DEF ProcessInv, QueueOK, AtWork, TypeOK
    <3>2. \A i \in DOMAIN queue :
            queue[i] # Stop => call'[queue[i]].fut \in {"pending", "cancelled"}
      BY <2>5, <3>1 DEF ProcessInv, QueueOK, Dispatched
    <3> QED BY <1>1, <2>4, <3>2 DEF ProcessInv, QueueOK, AtWork, Dispatched
  <2>8. StopIsLast' /\ StopDrains' /\ ExitSaves'
    BY <1>1, <2>4 DEF ProcessInv, StopIsLast, StopDrains, ExitSaves
  <2> QED BY <2>6, <2>7, <2>8 DEF ProcessInv
<1>4. CASE main.pc \in {"left", "saving"}
  <2>1. /\ main' \in MainTypes /\ main'.pc = "exited"
        /\ main'.why = main.why /\ main'.end = "cut"
        /\ UNCHANGED call /\ db' \in {"closed", "clean", "dirty"}
    BY <1>1, <1>4 DEF Sigterm, MainTypes, MainPCs
  <2> QED BY <1>1, <2>1, Leaves DEF AtWork
<1> QED BY <1>2, <1>3, <1>4 DEF Sigterm

-----------------------------------------------------------------------------
(* The theorems *)

LEMMA InitInv == Init => ProcessInv
<1> SUFFICES ASSUME Init PROVE ProcessInv
  OBVIOUS
<1>1. TypeOK
  <2>1. call \in [Calls -> [op : Ops, fut : Futures, checked : BOOLEAN,
                            withdrawn : BOOLEAN]]
    BY DEF Init, Ops, Futures
  <2>2. main \in [pc : MainPCs, job : Calls \cup {None},
                  outcome : {"none", "step", "result", "error", "interrupted"},
                  why : {"none", "stop", "signal", "invalid"},
                  end : {"none", "exit", "cut", "usr1", "killed"}]
    BY DEF Init, MainPCs
  <2>3. queue \in Seq(Calls \cup {Stop})
    BY DEF Init
  <2> QED BY <2>1, <2>2, <2>3 DEF TypeOK, Init
<1>2. DOMAIN queue = {}
  BY DEF Init
<1>3. main.pc = "waiting" /\ main.why = "none" /\ main.end = "none"
      /\ loop = "serving" /\ db = "closed"
  BY DEF Init
<1>4. \A c \in Calls : call[c].fut = "none"
  BY DEF Init
<1>5. QueueOK
  BY <1>2, <1>3 DEF QueueOK, AtWork
<1>6. StopIsLast /\ StopDrains /\ ExitSaves
  BY <1>2, <1>3, <1>4 DEF StopIsLast, StopDrains, ExitSaves
<1> QED BY <1>1, <1>5, <1>6 DEF ProcessInv

LEMMA NextInv ==
  ASSUME ProcessInv, [Next]_vars
  PROVE  ProcessInv'
<1>1. CASE Next
  BY <1>1, LoopInv, TakeInv, JobEndsInv, AnswerInv, FinallyInv, SigtermInv,
     Sigusr1Inv DEF Next, MainStep
<1>2. CASE UNCHANGED vars
  BY <1>2 DEF vars, ProcessInv, TypeOK, QueueOK, AtWork, Dispatched, Open,
     StopIsLast, StopDrains, ExitSaves
<1> QED BY <1>1, <1>2

\* Queue, futures and threads agree, for any number of calls, cancelled and
\* signalled at any moment.
THEOREM ProcessInvariant == Spec => []ProcessInv
<1>1. Init => ProcessInv
  BY InitInv
<1>2. ProcessInv /\ [Next]_vars => ProcessInv'
  BY NextInv
<1> QED BY <1>1, <1>2, PTL DEF Spec

\* The sentinel overtakes no call: a worker that stops at it has answered, or
\* cancelled, whatever was dispatched.
THEOREM SentinelIsLast == Spec => []StopDrains
<1>1. ProcessInv => StopDrains
  BY DEF ProcessInv
<1> QED BY <1>1, ProcessInvariant, PTL

\* A process that ends by itself leaves no database open, whichever of the ways
\* out of the loop it took.
THEOREM ExitClosesDatabase == Spec => []ExitSaves
<1>1. ProcessInv => ExitSaves
  BY DEF ProcessInv
<1> QED BY <1>1, ProcessInvariant, PTL

-----------------------------------------------------------------------------
(* No call is lost, and no thread waits for nothing *)

Queued == {queue[i] : i \in DOMAIN queue}
InLoop == main.pc = "waiting" \/ AtWork

\* As long as the main thread is in run_forever, a pending call is in the queue or
\* at work, and a loop that ended has left its sentinel there.
NoneLost ==
  /\ \A c \in Calls :
       call[c].fut = "pending" =>
         c \in Queued \/ (AtWork /\ main.job = c) \/ ~InLoop
  /\ loop = "ended" /\ InLoop => Stop \in Queued

LEMMA QueuedAppended ==
  ASSUME NEW x \in Calls \cup {Stop}, ProcessInv, queue' = Append(queue, x)
  PROVE  Queued' = Queued \cup {x}
<1>1. /\ DOMAIN queue' = DOMAIN queue \cup {Len(queue) + 1}
      /\ \A i \in DOMAIN queue : queue'[i] = queue[i]
      /\ queue'[Len(queue) + 1] = x
  BY Appended DEF ProcessInv, TypeOK
<1> QED BY <1>1 DEF Queued

LEMMA TailReaches ==
  ASSUME NEW S, NEW q \in Seq(S), q # <<>>
  PROVE  \A i \in DOMAIN q : i # 1 => /\ i - 1 \in DOMAIN Tail(q)
                                      /\ Tail(q)[i - 1] = q[i]
OBVIOUS

LEMMA QueuedPopped ==
  ASSUME ProcessInv, queue # <<>>, queue' = Tail(queue)
  PROVE  Queued \subseteq Queued' \cup {Head(queue)}
<1>1. /\ \A i \in DOMAIN queue : i # 1 => /\ i - 1 \in DOMAIN queue'
                                          /\ queue'[i - 1] = queue[i]
      /\ Head(queue) = queue[1]
  BY TailReaches, Popped DEF ProcessInv, TypeOK
<1> QED BY <1>1 DEF Queued

\* What leaves the queue alone loses no call, if what the main thread leaves is
\* settled.
LEMMA NoneLostKept ==
  ASSUME NoneLost, queue' = queue, loop' = loop, InLoop' => InLoop,
         \A c \in Calls :
           call'[c].fut = "pending" /\ InLoop' =>
             /\ call[c].fut = "pending"
             /\ AtWork /\ main.job = c => AtWork' /\ main'.job = c
  PROVE  NoneLost'
<1>1. Queued' = Queued
  BY DEF Queued
<1> QED BY <1>1 DEF NoneLost

LEMMA LoopNoneLost ==
  ASSUME ProcessInv, NoneLost, LoopStep
  PROVE  NoneLost'
<1>1. main' = main /\ (InLoop' <=> InLoop) /\ (AtWork' <=> AtWork)
  BY DEF LoopStep, StdinCloses, LoopEnds, Submit, Resume, Withdraw, CancelFuture,
     InLoop, AtWork
<1>2. CASE StdinCloses
  <2>1. Queued' = Queued /\ call' = call /\ loop' # "ended"
    BY <1>2 DEF StdinCloses, StdinQueues, Queued
  <2> QED BY <1>1, <2>1 DEF NoneLost
<1>3. CASE LoopEnds
  <2>1. Queued' = Queued \cup {Stop} /\ call' = call
    BY <1>3, QueuedAppended DEF LoopEnds, Shutdown
  <2> QED BY <1>1, <2>1 DEF NoneLost
<1>4. CASE \E c \in Calls : Submit(c) \/ Resume(c)
  <2>1. PICK c \in Calls : Submit(c) \/ Resume(c)
    BY <1>4
  <2>2. /\ Queued' = Queued \cup {c} /\ loop' = loop
        /\ \A d \in Calls : d # c => call'[d] = call[d]
    BY <2>1, QueuedAppended DEF Submit, Resume, Submitted, ProcessInv, TypeOK
  <2> QED BY <1>1, <2>2 DEF NoneLost
<1>5. CASE \E c \in Calls : Withdraw(c) \/ CancelFuture(c)
  <2>1. PICK c \in Calls : Withdraw(c) \/ CancelFuture(c)
    BY <1>5
  <2>2. /\ queue' = queue /\ loop' = loop
        /\ \A d \in Calls : call'[d].fut = "pending" => call[d].fut = "pending"
    <3>1. call \in CallTypes
      BY DEF ProcessInv, TypeOK, CallTypes
    <3>2. CASE Withdraw(c)
      BY <3>1, <3>2 DEF Withdraw, CallTypes
    <3>3. CASE CancelFuture(c)
      BY <3>1, <3>3 DEF CancelFuture, CallTypes
    <3> QED BY <2>1, <3>2, <3>3
  <2> QED BY <1>1, <2>2, NoneLostKept
<1> QED BY <1>2, <1>3, <1>4, <1>5 DEF LoopStep

LEMMA MainNoneLost ==
  ASSUME ProcessInv, NoneLost, MainStep
  PROVE  NoneLost'
<1>1. CASE Take
  <2> DEFINE h == Head(queue)
  <2>1. /\ main.pc = "waiting" /\ main \in MainTypes
        /\ Queued \subseteq Queued' \cup {h}
        /\ UNCHANGED <<call, loop>>
        /\ ~AtWork /\ InLoop
    BY <1>1, QueuedPopped DEF Take, ProcessInv, TypeOK, MainTypes, AtWork, InLoop
  <2>2. CASE h = Stop
    <3>1. main'.pc = "left"
      BY <1>1, <2>1, <2>2 DEF Take, Taken, MainTypes
    <3> QED BY <3>1 DEF NoneLost, InLoop, AtWork
  <2>3. CASE h # Stop /\ call[h].fut = "cancelled"
    BY <2>1, <2>3 DEF NoneLost
  <2>4. CASE h # Stop /\ call[h].fut # "cancelled"
    <3>1. main'.pc = "running" /\ main'.job = h
      BY <1>1, <2>1, <2>4 DEF Take, Taken, MainTypes
    <3> QED BY <2>1, <2>4, <3>1 DEF NoneLost, AtWork
  <2> QED BY <2>2, <2>3, <2>4
<1>2. CASE JobEnds
  <2>1. /\ main.pc = "running" /\ main \in MainTypes
        /\ UNCHANGED <<call, queue, loop>>
        /\ AtWork /\ InLoop
    BY <1>2 DEF JobEnds, ProcessInv, TypeOK, MainTypes, AtWork, InLoop
  <2>2. \/ call[main.job].fut = "cancelled"
        \/ main'.pc = "answering" /\ main'.job = main.job
    BY <1>2, <2>1 DEF JobEnds, MainTypes
  <2> QED BY <2>1, <2>2, NoneLostKept DEF AtWork
<1>3. CASE Answer
  <2> DEFINE c == main.job
  <2>1. /\ main.pc = "answering" /\ main \in MainTypes /\ c \in Calls
        /\ UNCHANGED <<queue, loop>> /\ AtWork /\ InLoop
        /\ call \in CallTypes
    BY <1>3 DEF Answer, ProcessInv, QueueOK, TypeOK, MainTypes, CallTypes, AtWork,
       InLoop
  <2>2. CASE call[c].fut = "cancelled"
    <3>1. main'.pc = "left"
      BY <1>3, <2>1, <2>2 DEF Answer, MainTypes
    <3> QED BY <2>1, <3>1, NoneLostKept DEF InLoop, AtWork
  <2>3. CASE call[c].fut # "cancelled"
    <3>1. call' = [call EXCEPT ![c].fut = main.outcome]
      BY <1>3, <2>3 DEF Answer
    <3>2. /\ call'[c].fut # "pending"
          /\ \A d \in Calls : d # c => call'[d] = call[d]
      BY <2>1, <3>1 DEF CallTypes, MainTypes
    <3> QED BY <2>1, <3>2, NoneLostKept
  <2> QED BY <2>2, <2>3
<1>4. CASE JoinEnds \/ SaveOnExit
  <2>1. main'.pc \in {"saving", "exited"}
    BY <1>4 DEF JoinEnds, SaveOnExit, ProcessInv, TypeOK
  <2> QED BY <2>1 DEF NoneLost, InLoop, AtWork
<1> QED BY <1>1, <1>2, <1>3, <1>4 DEF MainStep

LEMMA NextNoneLost ==
  ASSUME ProcessInv, NoneLost, [Next]_vars
  PROVE  NoneLost'
<1>1. CASE Sigterm \/ Kill
  <2>1. main'.pc \in {"left", "exited"}
    BY <1>1 DEF Sigterm, Kill, ProcessInv, TypeOK
  <2> QED BY <2>1 DEF NoneLost, InLoop, AtWork
<1>2. CASE Sigusr1
  <2>1. main' = main \/ main'.pc = "exited"
    BY <1>2 DEF Sigusr1, ProcessInv, TypeOK
  <2>2. UNCHANGED <<call, queue, loop>>
    BY <1>2 DEF Sigusr1
  <2> QED BY <2>1, <2>2 DEF NoneLost, InLoop, AtWork, Queued
<1>3. CASE UNCHANGED vars
  BY <1>3 DEF vars, NoneLost, InLoop, AtWork, Queued
<1> QED BY <1>1, <1>2, <1>3, LoopNoneLost, MainNoneLost DEF Next

\* No call is lost between the two threads: as long as the main thread is in
\* run_forever, whoever awaits a future has its call in the queue or at work.
THEOREM NoCallLost == Spec => []NoneLost
<1>1. Init => NoneLost
  BY DEF Init, NoneLost
<1>2. ProcessInv /\ NoneLost /\ [Next]_vars => NoneLost'
  BY NextNoneLost
<1> QED BY <1>1, <1>2, ProcessInvariant, PTL DEF Spec

\* Nothing to do: the server serves, and no call is open.
Idle == /\ loop = "serving" /\ main.pc = "waiting" /\ queue = <<>>
        /\ \A c \in Calls : ~Open(c)

\* The guards of Take, JobEnds, Answer, JoinEnds and SaveOnExit, and those of
\* Resume and LoopEnds.
MainCanStep ==
  \/ main.pc \in {"running", "answering", "left", "saving"}
  \/ main.pc = "waiting" /\ queue # <<>>
LoopCanStep ==
  \/ loop # "ended" /\ \E c \in Calls : call[c].fut = "step"
  \/ loop = "draining" /\ \A c \in Calls : ~Open(c)

NeverStuck == main.pc = "exited" \/ Idle \/ MainCanStep \/ LoopCanStep

\* The event loop and the main thread never wait for each other: a worker that
\* has not ended is idle, or one of its threads has a step to take, without any
\* signal or cancellation.
THEOREM ThreadsNeverDeadlock == Spec => []NeverStuck
<1>1. ProcessInv /\ NoneLost => NeverStuck
  <2> SUFFICES ASSUME ProcessInv, NoneLost, main.pc = "waiting", queue = <<>>
               PROVE  Idle \/ LoopCanStep
    BY DEF NeverStuck, MainCanStep, ProcessInv, TypeOK, MainTypes, MainPCs
  <2>1. InLoop /\ ~AtWork
    BY DEF InLoop, AtWork
  <2>2. Queued = {}
    <3>1. DOMAIN queue = {}
      OBVIOUS
    <3> QED BY <3>1 DEF Queued
  <2>3. loop \in {"serving", "draining"}
    BY <2>1, <2>2 DEF NoneLost, ProcessInv, TypeOK
  <2>4. \A c \in Calls : Open(c) => call[c].fut = "step"
    BY <2>1, <2>2 DEF NoneLost, Open
  <2> QED BY <2>3, <2>4 DEF Idle, LoopCanStep
<1> QED BY <1>1, ProcessInvariant, NoCallLost, PTL

-----------------------------------------------------------------------------
(* A call is answered once *)

Settled == {"result", "error", "interrupted", "exit", "cancelled"}

LEMMA SettledStays ==
  ASSUME ProcessInv, [Next]_vars, NEW c \in Calls, call[c].fut \in Settled
  PROVE  call'[c].fut = call[c].fut
<1>1. call \in CallTypes /\ main \in MainTypes
  BY DEF ProcessInv, TypeOK, CallTypes, MainTypes
<1>2. CASE LoopStep
  <2>1. CASE StdinCloses \/ LoopEnds
    BY <2>1 DEF StdinCloses, LoopEnds
  <2>2. CASE \E d \in Calls : Submit(d) \/ Resume(d)
    <3>1. PICK d \in Calls : Submit(d) \/ Resume(d)
      BY <2>2
    <3>2. call[d].fut \in {"none", "step"}
      BY <3>1 DEF Submit, Resume
    <3>3. c # d => call'[c] = call[c]
      BY <1>1, <3>1 DEF Submit, Resume, Submitted, CallTypes
    <3> QED BY <3>2, <3>3 DEF Settled
  <2>3. CASE \E d \in Calls : Withdraw(d) \/ CancelFuture(d)
    <3>1. PICK d \in Calls : Withdraw(d) \/ CancelFuture(d)
      BY <2>3
    <3>2. CASE Withdraw(d)
      BY <1>1, <3>2 DEF Withdraw, CallTypes
    <3>3. CASE CancelFuture(d)
      <4>1. call[d].fut \in {"pending", "step"}
        BY <3>3 DEF CancelFuture
      <4>2. c # d => call'[c] = call[c]
        BY <1>1, <3>3 DEF CancelFuture, CallTypes
      <4> QED BY <4>1, <4>2 DEF Settled
    <3> QED BY <3>1, <3>2, <3>3
  <2> QED BY <1>2, <2>1, <2>2, <2>3 DEF LoopStep
<1>3. CASE Answer
  <2>1. main.job \in Calls /\ Dispatched(main.job)
    BY <1>3 DEF Answer, ProcessInv, QueueOK, AtWork
  <2> QED BY <1>1, <1>3, <2>1 DEF Answer, CallTypes, Dispatched, Settled
<1>4. CASE Sigterm
  <2>1. main.pc = "running" => main.job \in Calls /\ Dispatched(main.job)
    BY DEF ProcessInv, QueueOK, AtWork
  <2>2. CASE main.pc = "running"
    BY <1>1, <1>4, <2>1, <2>2 DEF Sigterm, CallTypes, Dispatched, Settled
  <2> QED BY <1>4, <2>2 DEF Sigterm
<1>5. CASE Take \/ JobEnds \/ JoinEnds \/ SaveOnExit \/ Sigusr1 \/ Kill
  BY <1>5 DEF Take, JobEnds, JoinEnds, SaveOnExit, Sigusr1, Kill
<1>6. CASE UNCHANGED vars
  BY <1>6 DEF vars
<1> QED BY <1>2, <1>3, <1>4, <1>5, <1>6 DEF Next, MainStep

\* A future is settled once: an answer, an error or a cancellation is never
\* replaced, though the main thread tests for a cancellation and answers in two
\* steps, and SIGTERM answers from wherever the job is.
AnsweredOnce ==
  [][\A c \in Calls : call[c].fut \in Settled => call'[c].fut = call[c].fut]_vars

THEOREM CallsAnsweredOnce == Spec => AnsweredOnce
<1>1. ProcessInv /\ [Next]_vars =>
        [\A c \in Calls : call[c].fut \in Settled
                            => call'[c].fut = call[c].fut]_vars
  BY SettledStays
<1> QED BY <1>1, ProcessInvariant, PTL DEF Spec, AnsweredOnce
=============================================================================
