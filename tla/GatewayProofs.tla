----------------------------- MODULE GatewayProofs -----------------------------
(***************************************************************************)
(* Proofs about Gateway: its inductive invariant, that a live proxy keeps  *)
(* the daemon whatever the intervals are, that a daemon whose proxies are  *)
(* gone ends in time, and that a batch tells what became of the database.  *)
(***************************************************************************)
EXTENDS Gateway, TLAPS

USE TimingAssumption

ClientRec ==
  [life : {"new", "up", "gone"}, connected : BOOLEAN, session : BOOLEAN,
   pinged : BOOLEAN, silent : 0 .. MaxSilence]

ReqRec ==
  [tool : {"none", "batch", "execute", "call"},
   pc : {"idle", "next", "calling", "progress", "answered", "raised"},
   total : 0 .. MaxOps, stop : BOOLEAN, results : Seq({"ok", "error"}),
   inWorker : 0 .. MaxOps, done : SUBSET (1 .. MaxOps),
   withdrawn : BOOLEAN, cancelled : BOOLEAN]

\* RequestOK of a request r.
ReqOK(r) ==
  LET n == Len(r.results)
  IN  /\ n <= r.total
      /\ r.inWorker \in {0, n + 1}
      /\ r.inWorker <= r.total
      /\ r.pc = "calling" => r.inWorker # 0
      /\ r.pc \in {"idle", "next", "progress"} => r.inWorker = 0
      /\ r.pc \in {"answered", "raised"} /\ r.inWorker # 0 => r.withdrawn
      /\ r.pc = "progress" => n < r.total /\ r.tool = "batch"
      /\ \A k \in r.done : k <= n \/ (r.withdrawn /\ k = n + 1)
      /\ \A k \in 1 .. n : r.results[k] = "ok" => k \in r.done

\* What BatchTells says of an answered batch, and what leads to it: while a
\* batch goes on, it has stopped at no failure.
BatchOK(r) ==
  LET n == Len(r.results)
  IN  r.tool = "batch" =>
        /\ r.stop => \A k \in 1 .. n - 1 : r.results[k] = "ok"
        /\ r.pc \in {"next", "calling"} /\ r.stop =>
             \A k \in 1 .. n : r.results[k] = "ok"
        /\ r.pc = "answered" /\ ~r.cancelled => n = r.total

\* The inductive invariant behind BatchTells.
IInv == GatewayInv /\ BatchOK(req)

-----------------------------------------------------------------------------
(* Requests *)

\* The tail of a batch keeps the request's facts, if it ran to its end or what
\* stopped it is in the result (the end of batch, transforms.py).
LEMMA AnsweredOK ==
  ASSUME NEW r \in ReqRec, r.tool = "batch",
         Len(r.results) <= r.total,
         r.inWorker \in {0, Len(r.results) + 1}, r.inWorker <= r.total,
         r.inWorker # 0 => r.withdrawn,
         \A k \in r.done :
           k <= Len(r.results) \/ (r.withdrawn /\ k = Len(r.results) + 1),
         \A k \in 1 .. Len(r.results) : r.results[k] = "ok" => k \in r.done,
         r.stop => \A k \in 1 .. Len(r.results) - 1 : r.results[k] = "ok",
         r.withdrawn \/ (r.stop /\ Failed(r)) \/ Len(r.results) = r.total
  PROVE  Answered(r) \in ReqRec /\ ReqOK(Answered(r)) /\ BatchOK(Answered(r))
  <1> DEFINE a == Answered(r)
  <1>1. /\ a.results = r.results /\ a.total = r.total /\ a.stop = r.stop
        /\ a.inWorker = r.inWorker /\ a.done = r.done /\ a.withdrawn = r.withdrawn
        /\ a.tool = r.tool /\ a.pc = "answered"
        /\ a.cancelled = (r.withdrawn \/ (r.stop /\ Failed(r)))
    BY DEF Answered, ReqRec
  <1>2. a \in ReqRec
    BY DEF Answered, ReqRec
  <1>3. ReqOK(a)
    BY <1>1 DEF ReqOK
  <1>4. BatchOK(a)
    BY <1>1 DEF BatchOK
  <1> HIDE DEF a
  <1> QED
    BY <1>2, <1>3, <1>4 DEF a

\* Recording an operation's result keeps the request's facts, if a success is one
\* of the operations that took effect.
LEMMA RecordedOK ==
  ASSUME NEW r \in ReqRec, NEW result \in {"ok", "error"},
         Len(r.results) < r.total,
         \A k \in r.done : k <= Len(r.results) + 1,
         \A k \in 1 .. Len(r.results) : r.results[k] = "ok" => k \in r.done,
         result = "ok" => Len(r.results) + 1 \in r.done,
         (r.tool = "batch" /\ r.stop) =>
           \A k \in 1 .. Len(r.results) : r.results[k] = "ok"
  PROVE  /\ Recorded(r, result) \in ReqRec
         /\ ReqOK(Recorded(r, result))
         /\ BatchOK(Recorded(r, result))
  <1> DEFINE n == Len(r.results)
             s == [r EXCEPT !.results = Append(@, result), !.inWorker = 0]
             With(pc) == [s EXCEPT !.pc = pc]
  <1>1. /\ r.results \in Seq({"ok", "error"}) /\ n \in Nat /\ r.total \in Nat
        /\ r.done \subseteq Nat
    BY DEF ReqRec
  <1>2. /\ Append(r.results, result) \in Seq({"ok", "error"})
        /\ Len(Append(r.results, result)) = n + 1
        /\ \A k \in 1 .. n : Append(r.results, result)[k] = r.results[k]
        /\ Append(r.results, result)[n + 1] = result
    BY <1>1
  <1>a. /\ s.results = Append(r.results, result) /\ s.inWorker = 0
        /\ s.total = r.total /\ s.stop = r.stop /\ s.done = r.done
        /\ s.withdrawn = r.withdrawn /\ s.tool = r.tool
    BY DEF ReqRec
  <1>b. 0 \in 0 .. MaxOps
    OBVIOUS
  <1>c. s \in ReqRec
    BY <1>2, <1>b DEF ReqRec
  <1> HIDE DEF s
  <1>3. /\ s \in ReqRec
        /\ s.results = Append(r.results, result) /\ s.inWorker = 0
        /\ s.total = r.total /\ s.stop = r.stop /\ s.done = r.done
        /\ s.withdrawn = r.withdrawn /\ s.tool = r.tool
    BY <1>a, <1>c
  <1>4. /\ Len(s.results) = n + 1 /\ n + 1 <= s.total
        /\ \A k \in s.done : k <= n + 1
        /\ \A k \in 1 .. n + 1 : s.results[k] = "ok" => k \in s.done
        /\ s.tool = "batch" /\ s.stop =>
             \A k \in 1 .. (n + 1) - 1 : s.results[k] = "ok"
    <2>1. Len(s.results) = n + 1 /\ n + 1 <= s.total
      BY <1>1, <1>2, <1>3
    <2>2. \A k \in s.done : k <= n + 1
      BY <1>3
    <2>3. ASSUME NEW k \in 1 .. n + 1, s.results[k] = "ok"
          PROVE  k \in s.done
      <3>1. CASE k \in 1 .. n
        BY <1>2, <1>3, <2>3, <3>1
      <3>2. CASE k = n + 1
        BY <1>2, <1>3, <2>3, <3>2
      <3> QED
        BY <1>1, <2>3, <3>1, <3>2
    <2>4. ASSUME s.tool = "batch", s.stop, NEW k \in 1 .. (n + 1) - 1
          PROVE  s.results[k] = "ok"
      <3>1. k \in 1 .. n
        BY <1>1
      <3> QED
        BY <1>2, <1>3, <2>4, <3>1
    <2> QED
      BY <2>1, <2>2, <2>3, <2>4
  <1>5. ASSUME NEW pc \in {"next", "progress", "answered", "raised"}
        PROVE  /\ With(pc) \in ReqRec
               /\ With(pc).pc = pc /\ With(pc).results = s.results
               /\ With(pc).inWorker = 0 /\ With(pc).total = s.total
               /\ With(pc).stop = s.stop /\ With(pc).done = s.done
               /\ With(pc).withdrawn = s.withdrawn /\ With(pc).tool = s.tool
    BY <1>3 DEF ReqRec
  <1> HIDE DEF With
  <1>6. ASSUME NEW pc \in {"next", "progress", "answered", "raised"},
               pc = "progress" => Len(s.results) < s.total /\ s.tool = "batch",
               pc # "progress" => s.tool # "batch"
        PROVE  /\ With(pc) \in ReqRec /\ ReqOK(With(pc)) /\ BatchOK(With(pc))
    <2>1. ReqOK(With(pc))
      <3>1. \A k \in With(pc).done : k <= Len(With(pc).results)
        BY <1>4, <1>5
      <3>2. \A k \in 1 .. Len(With(pc).results) :
              With(pc).results[k] = "ok" => k \in With(pc).done
        BY <1>4, <1>5
      <3> QED
        BY <1>1, <1>3, <1>4, <1>5, <1>6, <3>1, <3>2 DEF ReqOK
    <2>2. BatchOK(With(pc))
      BY <1>1, <1>4, <1>5, <1>6 DEF BatchOK
    <2> QED
      BY <1>5, <2>1, <2>2
  <1>7. CASE s.tool = "batch" /\ Len(s.results) = s.total
    <2>1. Recorded(r, result) = Answered(s)
      BY <1>7 DEF Recorded, s
    <2>2. /\ Len(s.results) = n + 1 /\ Len(s.results) <= s.total
          /\ s.inWorker \in {0, Len(s.results) + 1} /\ s.inWorker <= s.total
          /\ \A k \in s.done :
               k <= Len(s.results) \/ (s.withdrawn /\ k = Len(s.results) + 1)
          /\ \A k \in 1 .. Len(s.results) : s.results[k] = "ok" => k \in s.done
      BY <1>1, <1>3, <1>4
    <2>3. s.stop => \A k \in 1 .. Len(s.results) - 1 : s.results[k] = "ok"
      BY <1>4, <1>7
    <2> HIDE DEF n
    <2>4. /\ Answered(s) \in ReqRec /\ ReqOK(Answered(s)) /\ BatchOK(Answered(s))
      BY <1>3, <1>7, <2>2, <2>3, AnsweredOK
    <2> QED
      BY <2>1, <2>4
  <1>8. CASE s.tool = "batch" /\ Len(s.results) # s.total
    <2>1. Recorded(r, result) = With("progress")
      BY <1>8 DEF Recorded, s, With
    <2>2. Len(s.results) < s.total
      BY <1>1, <1>3, <1>4, <1>8
    <2> QED
      BY <1>6, <1>8, <2>1, <2>2
  <1>9. CASE s.tool = "call"
    <2>1. Recorded(r, result) = With(IF result = "ok" THEN "answered" ELSE "raised")
      BY <1>9 DEF Recorded, s, With
    <2>2. (IF result = "ok" THEN "answered" ELSE "raised") \in {"answered", "raised"}
      OBVIOUS
    <2> QED
      BY <1>6, <1>9, <2>1, <2>2
  <1>10. CASE s.tool \notin {"batch", "call"}
    <2>1. Recorded(r, result) = With("next")
      BY <1>10 DEF Recorded, s, With
    <2> QED
      BY <1>6, <1>10, <2>1
  <1> QED
    BY <1>7, <1>8, <1>9, <1>10

\* A step of a request keeps the facts of the request and of the batch.
LEMMA RequestKept ==
  ASSUME req \in ReqRec, ReqOK(req), BatchOK(req),
         (\E c \in Clients : Batch(c) \/ Execute(c) \/ Call(c))
           \/ RequestStep \/ Cancel
  PROVE  req' \in ReqRec /\ ReqOK(req') /\ BatchOK(req')
  <1> DEFINE n == Len(req.results)
             Going(r) == r.total = req.total /\ r.results = req.results
                         /\ r.stop = req.stop /\ r.tool = req.tool
                         /\ r.cancelled = req.cancelled
  <1>0. /\ req.results \in Seq({"ok", "error"}) /\ n \in Nat /\ req.total \in Nat
        /\ req.done \subseteq Nat /\ req.inWorker \in Nat
    BY DEF ReqRec
  <1>1. ASSUME NEW c \in Clients, NEW tool \in {"batch", "execute", "call"},
               NEW total \in 1 .. MaxOps, NEW stop \in BOOLEAN,
               Request(c, tool, total, stop)
        PROVE  req' \in ReqRec /\ ReqOK(req') /\ BatchOK(req')
    <2>1. /\ req'.tool = tool /\ req'.pc = "next" /\ req'.total = total
          /\ req'.stop = stop /\ req'.results = << >> /\ req'.inWorker = 0
          /\ req'.done = {}
      BY <1>1 DEF Request, NoRequest
    <2>2. << >> \in Seq({"ok", "error"}) /\ Len(<< >>) = 0 /\ 0 \in 0 .. MaxOps
      OBVIOUS
    <2>3. req' \in ReqRec
      <3>1. req' = [tool |-> tool, pc |-> "next", total |-> total, stop |-> stop,
                    results |-> << >>, inWorker |-> 0, done |-> {},
                    withdrawn |-> FALSE, cancelled |-> FALSE]
        BY <1>1 DEF Request, NoRequest
      <3>2. total \in 0 .. MaxOps
        OBVIOUS
      <3> QED
        BY <2>2, <3>1, <3>2 DEF ReqRec
    <2>4. ReqOK(req')
      BY <2>1, <2>2 DEF ReqOK
    <2>5. BatchOK(req')
      BY <2>1, <2>2 DEF BatchOK
    <2> QED
      BY <2>3, <2>4, <2>5
  <1>2. CASE \E c \in Clients : Batch(c) \/ Execute(c) \/ Call(c)
    <2>1. 1 \in 1 .. MaxOps /\ FALSE \in BOOLEAN
      OBVIOUS
    <2>2. PICK c \in Clients : Batch(c) \/ Execute(c) \/ Call(c)
      BY <1>2
    <2>3. CASE Batch(c)
      BY <1>1, <2>3 DEF Batch
    <2>4. CASE Execute(c)
      BY <1>1, <2>1, <2>4 DEF Execute
    <2>5. CASE Call(c)
      BY <1>1, <2>1, <2>5 DEF Call
    <2> QED
      BY <2>2, <2>3, <2>4, <2>5
  <1>3. CASE Refused
    <2>1. /\ req' = Recorded(req, "error") /\ req.pc = "next" /\ n < req.total
          /\ req.inWorker = 0
      BY <1>3 DEF Refused, ReqOK
    <2>2. /\ \A k \in req.done : k <= n + 1
          /\ \A k \in 1 .. n : req.results[k] = "ok" => k \in req.done
      BY <1>0 DEF ReqOK
    <2>3. (req.tool = "batch" /\ req.stop) => \A k \in 1 .. n : req.results[k] = "ok"
      BY <2>1 DEF BatchOK
    <2> QED
      BY <2>1, <2>2, <2>3, RecordedOK
  <1>4. CASE Dispatched
    <2>1. /\ req' = [req EXCEPT !.pc = "calling", !.inWorker = n + 1]
          /\ req.pc = "next" /\ n < req.total
      BY <1>4 DEF Dispatched
    <2>2. n + 1 \in 0 .. MaxOps
      BY <1>0, <2>1 DEF ReqRec
    <2>3. /\ req' \in ReqRec /\ req'.pc = "calling" /\ req'.inWorker = n + 1
          /\ Going(req') /\ req'.done = req.done /\ req'.withdrawn = req.withdrawn
      BY <2>1, <2>2 DEF ReqRec
    <2>4. ReqOK(req')
      BY <1>0, <2>1, <2>3 DEF ReqOK
    <2>5. BatchOK(req')
      BY <2>1, <2>3 DEF BatchOK
    <2> QED
      BY <2>3, <2>4, <2>5
  <1>5. CASE Returns
    <2>1. PICK result \in {"ok", "error"}, did \in BOOLEAN :
            /\ result = "ok" => did
            /\ req' = Recorded([req EXCEPT !.done = IF did THEN @ \cup {req.inWorker} ELSE @],
                               result)
      BY <1>5 DEF Returns
    <2> DEFINE r == [req EXCEPT !.done = IF did THEN @ \cup {req.inWorker} ELSE @]
    <2>2. /\ req.pc = "calling" /\ req.inWorker = n + 1 /\ n < req.total
      BY <1>0, <1>5 DEF Returns, ReqOK
    <2>3. (IF did THEN req.done \cup {req.inWorker} ELSE req.done) \in SUBSET (1 .. MaxOps)
      BY <1>0, <2>2 DEF ReqRec
    <2>4. /\ r \in ReqRec /\ Going(r)
          /\ r.done = IF did THEN req.done \cup {n + 1} ELSE req.done
      BY <2>2, <2>3 DEF ReqRec
    <2> HIDE DEF r
    <2>5. \A k \in r.done : k <= n + 1
      BY <1>0, <2>4 DEF ReqOK
    <2>6. \A k \in 1 .. n : req.results[k] = "ok" => k \in r.done
      BY <2>4 DEF ReqOK
    <2>7. result = "ok" => n + 1 \in r.done
      BY <2>1, <2>4
    <2>8. (req.tool = "batch" /\ req.stop) => \A k \in 1 .. n : req.results[k] = "ok"
      BY <2>2 DEF BatchOK
    <2>9. /\ Recorded(r, result) \in ReqRec /\ ReqOK(Recorded(r, result))
          /\ BatchOK(Recorded(r, result))
      BY <2>2, <2>4, <2>5, <2>6, <2>7, <2>8, RecordedOK
    <2>10. req' = Recorded(r, result)
      BY <2>1 DEF r
    <2> QED
      BY <2>9, <2>10
  <1>6. CASE Progressed
    <2>1. /\ req.pc = "progress" /\ req.tool = "batch" /\ n < req.total
          /\ req.inWorker = 0
      BY <1>6 DEF Progressed, ReqOK
    <2>2. CASE req.stop /\ Failed(req)
      <3>1. req' = Answered(req)
        BY <1>6, <2>2 DEF Progressed
      <3> QED
        BY <1>0, <2>1, <2>2, <3>1, AnsweredOK DEF ReqOK, BatchOK
    <2>3. CASE ~(req.stop /\ Failed(req))
      <3>1. req' = [req EXCEPT !.pc = "next"]
        BY <1>6, <2>3 DEF Progressed
      <3>2. /\ req' \in ReqRec /\ req'.pc = "next" /\ Going(req')
            /\ req'.done = req.done /\ req'.withdrawn = req.withdrawn
            /\ req'.inWorker = 0
        BY <2>1, <3>1 DEF ReqRec
      <3>3. ReqOK(req')
        BY <1>0, <2>1, <3>2 DEF ReqOK
      <3>4. req.stop => \A k \in 1 .. n : req.results[k] = "ok"
        <4>1. \A k \in 1 .. n : req.results[k] \in {"ok", "error"}
          BY <1>0
        <4>2. DOMAIN req.results = 1 .. n
          BY <1>0
        <4> QED
          BY <2>3, <4>1, <4>2 DEF Failed
      <3>5. BatchOK(req')
        BY <3>2, <3>4 DEF BatchOK
      <3> QED
        BY <3>2, <3>3, <3>5
    <2> QED
      BY <2>2, <2>3
  <1>7. ASSUME NEW pc \in {"answered", "raised"}, req' = [req EXCEPT !.pc = pc],
               req.pc \in {"next", "progress"}, pc = "answered" => req.tool # "batch"
        PROVE  req' \in ReqRec /\ ReqOK(req') /\ BatchOK(req')
    <2>1. /\ req' \in ReqRec /\ req'.pc = pc /\ Going(req')
          /\ req'.done = req.done /\ req'.withdrawn = req.withdrawn
          /\ req'.inWorker = req.inWorker
      BY <1>7 DEF ReqRec
    <2>2. ReqOK(req')
      BY <1>0, <1>7, <2>1 DEF ReqOK
    <2>3. BatchOK(req')
      BY <1>7, <2>1 DEF BatchOK
    <2> QED
      BY <2>1, <2>2, <2>3
  <1>8. CASE ProgressFails
    BY <1>7, <1>8 DEF ProgressFails
  <1>9. CASE ExecuteEnds
    BY <1>7, <1>9 DEF ExecuteEnds
  <1>10. CASE LateEnd
    <2>1. PICK did \in BOOLEAN :
            req' = [req EXCEPT !.inWorker = 0,
                               !.done = IF did THEN @ \cup {req.inWorker} ELSE @]
      BY <1>10 DEF LateEnd
    <2>2. /\ req.pc \in {"answered", "raised"} /\ req.inWorker = n + 1
          /\ n + 1 <= req.total
      BY <1>0, <1>10 DEF LateEnd, ReqOK
    <2>3. /\ (IF did THEN req.done \cup {req.inWorker} ELSE req.done)
               \in SUBSET (1 .. MaxOps)
          /\ 0 \in 0 .. MaxOps
      BY <1>0, <2>2 DEF ReqRec
    <2>4. /\ req' \in ReqRec /\ Going(req') /\ req'.pc = req.pc
          /\ req'.withdrawn = req.withdrawn /\ req'.inWorker = 0
          /\ req'.done = IF did THEN req.done \cup {n + 1} ELSE req.done
      BY <2>1, <2>2, <2>3 DEF ReqRec
    <2>5. ReqOK(req')
      BY <1>0, <2>2, <2>4 DEF ReqOK
    <2>6. BatchOK(req')
      BY <2>4 DEF BatchOK
    <2> QED
      BY <2>4, <2>5, <2>6
  <1>11. CASE Cancel
    <2> DEFINE r == [req EXCEPT !.withdrawn = TRUE]
    <2>1. /\ req.pc \in {"calling", "progress", "next"}
          /\ req' = CASE r.tool = "batch" -> Answered(r)
                      [] r.tool = "call" -> [r EXCEPT !.pc = "raised"]
                      [] OTHER -> r
      BY <1>11 DEF Cancel
    <2>2. /\ r \in ReqRec /\ Going(r) /\ r.done = req.done /\ r.withdrawn = TRUE
          /\ r.inWorker = req.inWorker /\ r.pc = req.pc
      BY DEF ReqRec
    <2> HIDE DEF r
    <2>3. CASE r.tool = "batch"
      <3>1. req' = Answered(r)
        BY <2>1, <2>3
      <3>2. r.stop => \A k \in 1 .. n - 1 : r.results[k] = "ok"
        BY <2>2, <2>3 DEF BatchOK
      <3> QED
        BY <1>0, <2>2, <2>3, <3>1, <3>2, AnsweredOK DEF ReqOK
    <2>4. CASE r.tool = "call"
      <3>1. req' = [r EXCEPT !.pc = "raised"]
        BY <2>1, <2>4
      <3>2. /\ req' \in ReqRec /\ Going(req') /\ req'.done = req.done
            /\ req'.withdrawn = TRUE /\ req'.inWorker = req.inWorker
            /\ req'.pc = "raised"
        BY <2>2, <3>1 DEF ReqRec
      <3>3. ReqOK(req')
        BY <1>0, <3>2 DEF ReqOK
      <3>4. BatchOK(req')
        BY <2>2, <2>4, <3>2 DEF BatchOK
      <3> QED
        BY <3>2, <3>3, <3>4
    <2>5. CASE r.tool \notin {"batch", "call"}
      <3>1. req' = r
        BY <2>1, <2>5
      <3>2. ReqOK(req')
        BY <1>0, <2>2, <3>1 DEF ReqOK
      <3>3. BatchOK(req')
        BY <2>2, <2>5, <3>1 DEF BatchOK
      <3> QED
        BY <2>2, <3>1, <3>2, <3>3
    <2> QED
      BY <2>3, <2>4, <2>5
  <1> QED
    BY <1>2, <1>3, <1>4, <1>5, <1>6, <1>8, <1>9, <1>10, <1>11 DEF RequestStep

-----------------------------------------------------------------------------
(* Pings and the idle timer *)

FrontTypes ==
  /\ client \in [Clients -> ClientRec]
  /\ tracker \in [seen : BOOLEAN, age : 0 .. AgeCap]
  /\ monitor \in [next : 0 .. PollInterval, idle : BOOLEAN, idleFor : 0 .. IdleLimit]
  /\ serving \in BOOLEAN
  /\ busy \in BOOLEAN

FrontInv == FrontTypes /\ PingsSeen /\ TimerBehindPings

\* The invariant is about the timers and about the request, which share nothing.
LEMMA InvParts == GatewayInv <=> FrontInv /\ req \in ReqRec /\ ReqOK(req)
  BY DEF GatewayInv, TypeOK, FrontInv, FrontTypes, ClientRec, ReqRec, RequestOK, ReqOK

\* A client's step, or another request's, leaves the timers; a ping is the
\* latest one.
LEMMA ClientKeepsFront ==
  ASSUME FrontInv, NEW c \in Clients,
         Connect(c) \/ Ping(c) \/ Attach(c) \/ Leave(c) \/ Die(c) \/ ConnectionLost(c)
  PROVE  FrontInv'
  <1>0. /\ client[c] \in ClientRec /\ AgeCap \in Nat /\ 0 \in 0 .. MaxSilence
        /\ 0 \in 0 .. AgeCap
    BY DEF FrontInv, FrontTypes, AgeCap
  <1>1. ASSUME NEW r \in ClientRec, client' = [client EXCEPT ![c] = r],
               r.pinged => client[c].pinged /\ r.silent = client[c].silent
                           /\ r.life = "up",
               UNCHANGED <<tracker, monitor, serving, busy>>
        PROVE  FrontInv'
    <2>1. FrontTypes'
      BY <1>1 DEF FrontInv, FrontTypes
    <2>2. ASSUME NEW d \in Clients, client'[d].pinged
          PROVE  tracker.seen /\ tracker.age <= client'[d].silent /\ client'[d].life = "up"
      <3>1. CASE d = c
        <4>1. client'[d] = r
          BY <1>1, <3>1 DEF FrontInv, FrontTypes
        <4> QED
          BY <1>1, <2>2, <3>1, <4>1 DEF FrontInv, PingsSeen
      <3>2. CASE d # c
        BY <1>1, <2>2, <3>2 DEF FrontInv, FrontTypes, PingsSeen, Up
      <3> QED
        BY <3>1, <3>2
    <2>3. PingsSeen'
      BY <1>1, <2>2 DEF PingsSeen, Up
    <2>4. TimerBehindPings'
      BY <1>1 DEF FrontInv, TimerBehindPings
    <2> QED
      BY <2>1, <2>3, <2>4 DEF FrontInv
  <1>2. CASE Connect(c)
    <2> DEFINE r == [client[c] EXCEPT !.life = "up", !.connected = TRUE]
    <2>1. client' = [client EXCEPT ![c] = r]
      BY <1>2 DEF Connect, FrontInv, FrontTypes
    <2>2. ~client[c].pinged
      BY <1>2 DEF Connect, FrontInv, PingsSeen, Up
    <2>3. r \in ClientRec /\ r.pinged = client[c].pinged
      BY <1>0 DEF ClientRec
    <2> HIDE DEF r
    <2> QED
      BY <1>1, <1>2, <2>1, <2>2, <2>3 DEF Connect
  <1>3. CASE Attach(c)
    <2> DEFINE r == [client[c] EXCEPT !.session = TRUE]
    <2>1. client' = [client EXCEPT ![c] = r]
      BY <1>3 DEF Attach, FrontInv, FrontTypes
    <2>2. client[c].life = "up"
      BY <1>3 DEF Attach, Up
    <2>3. /\ r \in ClientRec /\ r.pinged = client[c].pinged
          /\ r.silent = client[c].silent /\ r.life = client[c].life
      BY <1>0 DEF ClientRec
    <2> HIDE DEF r
    <2> QED
      BY <1>1, <1>3, <2>1, <2>2, <2>3 DEF Attach
  <1>4. CASE Leave(c) \/ Die(c)
    <2>1. PICK connected \in BOOLEAN, session \in BOOLEAN :
            client' = [client EXCEPT ![c] = Gone(connected, session)]
      <3>1. client[c].session \in BOOLEAN
        BY <1>0 DEF ClientRec
      <3> QED
        BY <1>4, <3>1 DEF Leave, Die
    <2>2. Gone(connected, session) \in ClientRec /\ ~Gone(connected, session).pinged
      BY <1>0 DEF ClientRec, Gone
    <2> QED
      BY <1>1, <1>4, <2>1, <2>2 DEF Leave, Die
  <1>5. CASE ConnectionLost(c)
    <2> DEFINE r == [client[c] EXCEPT !.connected = FALSE]
    <2>1. client' = [client EXCEPT ![c] = r]
      BY <1>5 DEF ConnectionLost, FrontInv, FrontTypes
    <2>2. ~client[c].pinged
      BY <1>5 DEF ConnectionLost, FrontInv, PingsSeen, Up
    <2>3. r \in ClientRec /\ r.pinged = client[c].pinged
      BY <1>0 DEF ClientRec
    <2> HIDE DEF r
    <2> QED
      BY <1>1, <1>5, <2>1, <2>2, <2>3 DEF ConnectionLost
  <1>6. CASE Ping(c)
    <2> DEFINE r == [client[c] EXCEPT !.pinged = TRUE, !.silent = 0]
    <2>1. client' = [client EXCEPT ![c] = r] /\ tracker' = [seen |-> TRUE, age |-> 0]
      BY <1>6 DEF Ping, FrontInv, FrontTypes
    <2>2. r \in ClientRec /\ r.silent = 0 /\ r.life = "up"
      BY <1>0, <1>6 DEF ClientRec, Ping, Up
    <2> HIDE DEF r
    <2>3. FrontTypes'
      <3>1. client' \in [Clients -> ClientRec]
        BY <2>1, <2>2 DEF FrontInv, FrontTypes
      <3>2. tracker' \in [seen : BOOLEAN, age : 0 .. AgeCap]
        BY <1>0, <2>1
      <3>3. UNCHANGED <<monitor, serving, busy>>
        BY <1>6 DEF Ping
      <3> QED
        BY <3>1, <3>2, <3>3 DEF FrontInv, FrontTypes
    <2>4. \A d \in Clients : client'[d].silent \in Nat
      BY <2>3 DEF FrontTypes, ClientRec
    <2>5. ASSUME NEW d \in Clients, client'[d].pinged
          PROVE  client'[d].life = "up"
      BY <2>1, <2>2, <2>5 DEF FrontInv, FrontTypes, PingsSeen, Up
    <2>6. PingsSeen'
      BY <2>1, <2>4, <2>5 DEF PingsSeen, Up
    <2>7. TimerBehindPings'
      <3>1. monitor.next <= PollInterval /\ monitor.next \in Nat /\ monitor' = monitor
        BY <1>6 DEF Ping, FrontInv, FrontTypes
      <3> QED
        BY <2>1, <3>1 DEF TimerBehindPings
    <2> QED
      BY <2>3, <2>6, <2>7 DEF FrontInv
  <1> QED
    BY <1>2, <1>3, <1>4, <1>5, <1>6

\* Time passes for all timers together, up to their caps.
LEMMA TickKeepsFront ==
  ASSUME FrontInv, Tick PROVE FrontInv'
  <1>1. /\ AgeCap \in Nat /\ tracker.age \in 0 .. AgeCap /\ tracker.seen \in BOOLEAN
        /\ monitor.next \in 1 .. PollInterval /\ monitor.idleFor \in 0 .. IdleLimit
        /\ monitor.idle \in BOOLEAN
        /\ AgeCap = KeepaliveTimeout + IdleLimit
    BY DEF FrontInv, FrontTypes, AgeCap, Tick
  <1>2. /\ tracker'.age = Older(tracker.age, AgeCap) /\ tracker'.seen = tracker.seen
        /\ tracker' \in [seen : BOOLEAN, age : 0 .. AgeCap]
    BY <1>1 DEF FrontInv, FrontTypes, Tick, Older
  <1>3. /\ monitor'.next = monitor.next - 1 /\ monitor'.idle = monitor.idle
        /\ monitor'.idleFor = Older(monitor.idleFor, IdleLimit)
        /\ monitor' \in [next : 0 .. PollInterval, idle : BOOLEAN,
                         idleFor : 0 .. IdleLimit]
    <2>1. /\ monitor.next - 1 \in 0 .. PollInterval
          /\ Older(monitor.idleFor, IdleLimit) \in 0 .. IdleLimit
      BY <1>1 DEF Older
    <2>2. monitor' = [monitor EXCEPT !.next = monitor.next - 1,
                                     !.idleFor = Older(monitor.idleFor, IdleLimit)]
      BY DEF Tick
    <2> QED
      BY <2>1, <2>2 DEF FrontInv, FrontTypes
  <1>4. ASSUME NEW c \in Clients
        PROVE  /\ client'[c] \in ClientRec /\ client'[c].pinged = client[c].pinged
               /\ client'[c].life = client[c].life
               /\ client[c].pinged => client'[c].silent = client[c].silent + 1
    <2>1. client[c] \in ClientRec
      BY DEF FrontInv, FrontTypes
    <2>2. CASE ~client[c].pinged
      BY <2>1, <2>2 DEF Tick
    <2>3. CASE client[c].pinged
      <3>1. client[c].silent < MaxSilence
        BY <2>3 DEF Tick
      <3>2. client[c].silent + 1 \in 0 .. MaxSilence
        BY <2>1, <3>1 DEF ClientRec
      <3>3. client'[c] = [client[c] EXCEPT !.silent = @ + 1]
        BY <2>3 DEF Tick
      <3> QED
        BY <2>1, <3>2, <3>3 DEF ClientRec
    <2> QED
      BY <2>2, <2>3
  <1>5. client' \in [Clients -> ClientRec]
    <2>1. client' = [c \in Clients |-> client'[c]]
      BY DEF Tick
    <2> QED
      BY <1>4, <2>1
  <1>6. PingsSeen'
    <2>1. ASSUME NEW c \in Clients, client'[c].pinged
          PROVE  /\ tracker'.seen /\ tracker'.age <= client'[c].silent
                 /\ client'[c].life = "up"
      <3>1. /\ tracker.seen /\ tracker.age <= client[c].silent
            /\ client[c].life = "up" /\ client[c].silent \in Nat
        BY <1>4, <2>1 DEF FrontInv, FrontTypes, ClientRec, PingsSeen, Up
      <3> QED
        BY <1>1, <1>2, <1>4, <2>1, <3>1 DEF Older
    <2> QED
      BY <2>1 DEF PingsSeen, Up
  <1>7. TimerBehindPings'
    BY <1>1, <1>2, <1>3 DEF FrontInv, TimerBehindPings, Older
  <1> QED
    BY <1>2, <1>3, <1>5, <1>6, <1>7 DEF FrontInv, FrontTypes, Tick

\* A poll starts the idle timer only when no ping is fresh, and stops it at
\* the first fresh one.
LEMMA PollKeepsFront ==
  ASSUME FrontInv, Poll PROVE FrontInv'
  <1>1. /\ AgeCap \in Nat /\ tracker.age \in 0 .. AgeCap /\ tracker.seen \in BOOLEAN
        /\ monitor.next = 0 /\ monitor.idleFor \in 0 .. IdleLimit
        /\ monitor.idle \in BOOLEAN
    BY DEF FrontInv, FrontTypes, AgeCap, Poll
  <1>2. UNCHANGED <<client, tracker, busy>>
    BY DEF Poll
  <1>3. serving' \in BOOLEAN
    BY DEF Poll
  <1>4. ~Active /\ tracker.seen => tracker.age >= KeepaliveTimeout
    BY <1>1 DEF Active, HasProxy
  <1>5. /\ monitor' \in [next : 0 .. PollInterval, idle : BOOLEAN,
                         idleFor : 0 .. IdleLimit]
        /\ TimerBehindPings'
    <2>1. CASE Active
      <3>1. monitor' = [next |-> PollInterval, idle |-> FALSE, idleFor |-> 0]
        BY <2>1 DEF Poll
      <3> QED
        BY <3>1 DEF TimerBehindPings
    <2>2. CASE ~Active /\ ~monitor.idle
      <3>1. monitor' = [next |-> PollInterval, idle |-> TRUE, idleFor |-> 0]
        BY <2>2 DEF Poll
      <3> QED
        BY <1>1, <1>2, <1>4, <2>2, <3>1 DEF TimerBehindPings
    <2>3. CASE ~Active /\ monitor.idle
      <3>1. monitor' = [monitor EXCEPT !.next = PollInterval]
        BY <2>3 DEF Poll
      <3>2. /\ monitor'.idle = monitor.idle /\ monitor'.idleFor = monitor.idleFor
            /\ monitor' \in [next : 0 .. PollInterval, idle : BOOLEAN,
                             idleFor : 0 .. IdleLimit]
        BY <3>1 DEF FrontInv, FrontTypes
      <3> QED
        BY <1>1, <1>2, <1>4, <2>3, <3>2 DEF TimerBehindPings, FrontInv
    <2> QED
      BY <2>1, <2>2, <2>3
  <1>6. FrontTypes' /\ PingsSeen'
    BY <1>2, <1>3, <1>5 DEF FrontInv, FrontTypes, PingsSeen, Up
  <1> QED
    BY <1>5, <1>6 DEF FrontInv

\* The poll that ends the daemon finds no live proxy that pinged.
LEMMA ExitWithoutProxy ==
  ASSUME FrontInv, serving, Poll, ~serving', NEW c \in Clients
  PROVE  ~client[c].pinged
  <1>1. ~Active /\ monitor.idle /\ monitor.idleFor >= IdleLimit /\ monitor.next = 0
    <2>1. serving' = (Active \/ ~monitor.idle \/ monitor.idleFor < IdleLimit)
      BY DEF Poll
    <2>2. ~Active /\ monitor.idle /\ ~(monitor.idleFor < IdleLimit)
      BY <2>1, Zenon
    <2>3. monitor.idleFor \in Nat /\ monitor.next = 0
      BY DEF Poll, FrontInv, FrontTypes
    <2> QED
      BY <2>2, <2>3
  <1>2. SUFFICES ASSUME client[c].pinged PROVE FALSE
    OBVIOUS
  <1>3. /\ tracker.seen /\ tracker.age <= client[c].silent
        /\ client[c].silent \in 0 .. MaxSilence
    BY <1>2 DEF FrontInv, FrontTypes, ClientRec, PingsSeen
  <1>4. tracker.age >= KeepaliveTimeout /\ tracker.age \in Nat
    BY <1>1, <1>3 DEF Active, HasProxy, FrontInv, FrontTypes, AgeCap
  <1>5. tracker.age >= KeepaliveTimeout + monitor.idleFor
    BY <1>1, <1>3, <1>4 DEF FrontInv, FrontTypes, TimerBehindPings
  <1> QED
    BY <1>1, <1>3, <1>4, <1>5 DEF FrontInv, FrontTypes

-----------------------------------------------------------------------------
(* Theorems *)

\* The daemon starts with nobody connected and no request.
LEMMA InitInv == Init => IInv
  <1> SUFFICES ASSUME Init PROVE IInv
    OBVIOUS
  <1>1. /\ req = [tool |-> "none", pc |-> "idle", total |-> 0, stop |-> FALSE,
                  results |-> << >>, inWorker |-> 0, done |-> {},
                  withdrawn |-> FALSE, cancelled |-> FALSE]
        /\ << >> \in Seq({"ok", "error"}) /\ Len(<< >>) = 0
    BY DEF Init, NoRequest
  <1>2. req \in ReqRec /\ ReqOK(req) /\ BatchOK(req)
    BY <1>1 DEF ReqRec, ReqOK, BatchOK
  <1>3. FrontInv
    <2>1. AgeCap \in Nat /\ 0 \in 0 .. AgeCap /\ 0 \in 0 .. MaxSilence
      BY DEF AgeCap
    <2>2. FrontTypes
      <3>1. client \in [Clients -> ClientRec]
        BY <2>1 DEF Init, ClientRec
      <3>2. tracker \in [seen : BOOLEAN, age : 0 .. AgeCap]
        BY <2>1 DEF Init
      <3>3. monitor \in [next : 0 .. PollInterval, idle : BOOLEAN,
                         idleFor : 0 .. IdleLimit]
        <4>1. PollInterval \in 0 .. PollInterval /\ 0 \in 0 .. IdleLimit
          OBVIOUS
        <4> QED
          BY <4>1 DEF Init
      <3> QED
        BY <3>1, <3>2, <3>3 DEF Init, FrontTypes
    <2>3. PingsSeen /\ TimerBehindPings
      BY DEF Init, PingsSeen, TimerBehindPings
    <2> QED
      BY <2>2, <2>3 DEF FrontInv
  <1> QED
    BY <1>2, <1>3, InvParts DEF IInv

\* Every step is a client's, the request's or the monitor's, and keeps both parts.
LEMMA NextInv == IInv /\ [Next]_vars => IInv'
  <1> SUFFICES ASSUME IInv, [Next]_vars PROVE IInv'
    OBVIOUS
  <1>0. FrontInv /\ req \in ReqRec /\ ReqOK(req) /\ BatchOK(req)
    BY InvParts DEF IInv
  <1>a. ASSUME FrontInv', req' \in ReqRec, ReqOK(req'), BatchOK(req') PROVE IInv'
    BY <1>a DEF IInv, GatewayInv, TypeOK, FrontInv, FrontTypes, ClientRec, ReqRec,
                RequestOK, ReqOK
  <1>1. ASSUME NEW c \in Clients,
               Connect(c) \/ Ping(c) \/ Attach(c) \/ Leave(c) \/ Die(c) \/ ConnectionLost(c)
        PROVE  IInv'
    <2>1. req' = req
      BY <1>1 DEF Connect, Ping, Attach, Leave, Die, ConnectionLost
    <2> QED
      BY <1>0, <1>1, <1>a, <2>1, ClientKeepsFront
  <1>b. UNCHANGED <<client, tracker, monitor, serving>> /\ busy' \in BOOLEAN => FrontInv'
    BY <1>0 DEF FrontInv, FrontTypes, PingsSeen, TimerBehindPings, Up
  <1>c. busy \in BOOLEAN
    BY <1>0 DEF FrontInv, FrontTypes
  <1>2. CASE (\E c \in Clients : Batch(c) \/ Execute(c) \/ Call(c))
               \/ RequestStep \/ Cancel
    <2>1. UNCHANGED <<client, tracker, monitor, serving, busy>>
      BY <1>2 DEF Batch, Execute, Call, Request, RequestStep, Refused, Dispatched,
                  Returns, Progressed, ProgressFails, ExecuteEnds, LateEnd, Cancel
    <2> QED
      BY <1>0, <1>2, <1>a, <1>b, <1>c, <2>1, RequestKept
  <1>3. CASE WorkStarts \/ WorkEnds
    BY <1>0, <1>3, <1>a, <1>b DEF WorkStarts, WorkEnds
  <1>4. CASE Tick
    <2>1. req' = req
      BY <1>4 DEF Tick
    <2> QED
      BY <1>0, <1>4, <1>a, <2>1, TickKeepsFront
  <1>5. CASE Poll
    <2>1. req' = req
      BY <1>5 DEF Poll
    <2> QED
      BY <1>0, <1>5, <1>a, <2>1, PollKeepsFront
  <1>6. CASE UNCHANGED vars
    BY <1>0, <1>6, <1>a, <1>b, <1>c DEF vars
  <1> QED
    BY <1>1, <1>2, <1>3, <1>4, <1>5, <1>6 DEF Next, ClientStep

\* GatewayInv is an invariant, for any number of clients and any intervals that
\* keep the assumption.
THEOREM GatewayInvariant == Spec => []GatewayInv
  <1>1. IInv => GatewayInv
    BY DEF IInv
  <1> QED
    BY <1>1, InitInv, NextInv, PTL DEF Spec

\* BatchTells: an answered batch tells what became of the database.
THEOREM BatchesTell == Spec => []BatchTells
  <1>1. IInv => BatchTells
    BY DEF IInv, GatewayInv, RequestOK, BatchOK, BatchTells
  <1> QED
    BY <1>1, InitInv, NextInv, PTL DEF Spec

\* LiveProxyKeepsDaemon, for every poll interval shorter than the keepalive
\* timeout and every silence shorter than it and the idle limit together.
THEOREM ProxiesKeepTheDaemon == Spec => LiveProxyKeepsDaemon
  <1>1. IInv /\ [Next]_vars =>
          [serving /\ ~serving' => \A c \in Clients : Up(c) => ~client[c].pinged]_vars
    <2> SUFFICES ASSUME IInv, Next, serving, ~serving', NEW c \in Clients
                 PROVE  ~client[c].pinged
      BY DEF vars
    <2>1. Poll
      BY DEF Next, ClientStep, RequestStep, Connect, Ping, Attach, Leave, Die,
             ConnectionLost, Batch, Execute, Call, Request, Cancel, Refused, Dispatched,
             Returns, Progressed, ProgressFails, ExecuteEnds, LateEnd, WorkStarts,
             WorkEnds, Tick
    <2>2. FrontInv
      BY InvParts DEF IInv
    <2> QED
      BY <2>1, <2>2, ExitWithoutProxy
  <1> QED
    BY <1>1, InitInv, NextInv, PTL DEF Spec, LiveProxyKeepsDaemon

-----------------------------------------------------------------------------
(* How long an abandoned daemon goes on *)

\* The proxies are gone, the latest ping is older than the keepalive timeout,
\* and no worker is at work: what clients left behind, sessions and connections,
\* is taken for orphans.
Deserted ==
  /\ tracker.seen
  /\ ~HasProxy
  /\ ~ActiveWork
  /\ \A c \in Clients : client[c].life = "gone"

\* At most so many ticks lie before the poll that ends the daemon: before the
\* timer runs, the wait for the poll that starts it; then what it lacks of the
\* limit, and the wait for the first poll behind that.
TimeLeft ==
  IF ~monitor.idle THEN monitor.next + IdleLimit + PollInterval
  ELSE IF monitor.idleFor + monitor.next >= IdleLimit THEN monitor.next
  ELSE IdleLimit - monitor.idleFor + PollInterval

\* Two poll intervals and the idle limit bound the time left, no step sets it
\* back, and each tick takes one off; and nothing ends this but a call that an
\* execute's task, left behind by its client, still makes.
DesertedEnds ==
  [][serving /\ Deserted =>
       /\ TimeLeft \in 0 .. 2 * PollInterval + IdleLimit
       /\ serving' => TimeLeft' <= TimeLeft
       /\ Tick => TimeLeft > 0 /\ TimeLeft' = TimeLeft - 1
       /\ Deserted' \/ Dispatched]_vars

\* The monitor's record keeps its type, in which the time left is bounded.
LEMMA TimeLeftBound ==
  ASSUME FrontTypes PROVE TimeLeft \in 0 .. 2 * PollInterval + IdleLimit
  <1>1. /\ monitor.next \in 0 .. PollInterval /\ monitor.idle \in BOOLEAN
        /\ monitor.idleFor \in 0 .. IdleLimit
    BY DEF FrontTypes
  <1> QED
    BY <1>1 DEF TimeLeft

\* A tick takes one off, whether or not the timer runs: what the timer gains the
\* wait for the poll loses, and once both make the limit only the poll counts.
LEMMA TickTakesOne ==
  ASSUME FrontTypes, Tick PROVE TimeLeft > 0 /\ TimeLeft' = TimeLeft - 1
  <1>1. /\ monitor.next \in 1 .. PollInterval /\ monitor.idle \in BOOLEAN
        /\ monitor.idleFor \in 0 .. IdleLimit
    BY DEF FrontTypes, Tick
  <1>2. /\ monitor'.next = monitor.next - 1 /\ monitor'.idle = monitor.idle
        /\ monitor'.idleFor = Older(monitor.idleFor, IdleLimit)
    BY DEF FrontTypes, Tick
  <1>3. CASE ~monitor.idle
    BY <1>1, <1>2, <1>3 DEF TimeLeft
  <1>4. CASE monitor.idle /\ monitor.idleFor = IdleLimit
    BY <1>1, <1>2, <1>4 DEF TimeLeft, Older
  <1>5. CASE monitor.idle /\ monitor.idleFor < IdleLimit
    <2>1. /\ monitor'.idleFor = monitor.idleFor + 1
          /\ monitor'.idleFor + monitor'.next = monitor.idleFor + monitor.next
      BY <1>1, <1>2, <1>5 DEF Older
    <2> QED
      BY <1>1, <1>2, <1>5, <2>1 DEF TimeLeft
  <1> QED
    BY <1>1, <1>3, <1>4, <1>5

\* A poll of an abandoned daemon finds it idle: it starts the timer, leaves it
\* running, or ends the daemon.
LEMMA PollTakesNone ==
  ASSUME FrontTypes, Deserted, Poll, serving' PROVE TimeLeft' <= TimeLeft
  <1>1. /\ monitor.next = 0 /\ monitor.idle \in BOOLEAN
        /\ monitor.idleFor \in 0 .. IdleLimit
    BY DEF FrontTypes, Poll
  <1>2. ~Active
    BY DEF Deserted, Active, Discounted
  <1>3. CASE ~monitor.idle
    <2>1. monitor' = [next |-> PollInterval, idle |-> TRUE, idleFor |-> 0]
      BY <1>2, <1>3 DEF Poll
    <2> QED
      BY <1>1, <1>3, <2>1 DEF TimeLeft
  <1>4. CASE monitor.idle
    <2>1. monitor' = [monitor EXCEPT !.next = PollInterval]
      BY <1>2, <1>4 DEF Poll
    <2>2. /\ monitor'.next = PollInterval /\ monitor'.idle = monitor.idle
          /\ monitor'.idleFor = monitor.idleFor
      BY <2>1 DEF FrontTypes
    <2>3. monitor.idleFor < IdleLimit
      <3>1. serving' = (Active \/ ~monitor.idle \/ monitor.idleFor < IdleLimit)
        BY DEF Poll
      <3> QED
        BY <1>2, <1>4, <3>1, Zenon
    <2> QED
      BY <1>1, <1>4, <2>2, <2>3 DEF TimeLeft
  <1> QED
    BY <1>1, <1>3, <1>4

\* Nobody comes back to an abandoned daemon; a request that was answered, or
\* withdrawn and left to run, ends, or makes a call.
LEMMA DesertedStays ==
  ASSUME FrontInv, req \in ReqRec, serving, Deserted, Next
  PROVE  Deserted' \/ Dispatched
  <1>1. /\ ~busy /\ req.pc # "calling"
        /\ tracker \in [seen : BOOLEAN, age : 0 .. AgeCap] /\ AgeCap \in Nat
        /\ tracker.seen /\ tracker.age >= KeepaliveTimeout
        /\ \A c \in Clients : client[c] \in ClientRec /\ client[c].life = "gone"
    BY DEF Deserted, ActiveWork, HasProxy, FrontInv, FrontTypes, AgeCap
  <1>2. ASSUME UNCHANGED <<client, tracker, busy>>, req'.pc # "calling"
        PROVE  Deserted'
    BY <1>1, <1>2 DEF Deserted, ActiveWork, HasProxy
  <1>3. ASSUME NEW c \in Clients,
               Connect(c) \/ Ping(c) \/ Attach(c) \/ Leave(c) \/ Die(c)
                 \/ Batch(c) \/ Execute(c) \/ Call(c)
        PROVE  FALSE
    BY <1>1, <1>3 DEF Connect, Ping, Attach, Leave, Die, Batch, Execute, Call, Request, Up
  <1>4. ASSUME NEW c \in Clients, ConnectionLost(c) PROVE Deserted'
    <2>1. client' = [client EXCEPT ![c].connected = FALSE]
          /\ UNCHANGED <<tracker, busy, req>>
      BY <1>4 DEF ConnectionLost
    <2>2. ASSUME NEW d \in Clients PROVE client'[d].life = "gone"
      BY <1>1, <2>1 DEF FrontInv, FrontTypes, ClientRec
    <2> QED
      BY <1>1, <2>1, <2>2 DEF Deserted, ActiveWork, HasProxy
  <1>5. CASE Cancel
    <2> DEFINE r == [req EXCEPT !.withdrawn = TRUE]
    <2>1. r \in ReqRec /\ r.pc = req.pc
      BY DEF ReqRec
    <2>2. req' = CASE r.tool = "batch" -> Answered(r)
                   [] r.tool = "call" -> [r EXCEPT !.pc = "raised"]
                   [] OTHER -> r
      BY <1>5 DEF Cancel
    <2> HIDE DEF r
    <2>3. req'.pc # "calling"
      BY <1>1, <2>1, <2>2 DEF Answered, ReqRec
    <2> QED
      BY <1>2, <1>5, <2>3 DEF Cancel
  <1>6. CASE RequestStep
    <2>1. CASE Refused
      <3> DEFINE s == [req EXCEPT !.results = Append(@, "error"), !.inWorker = 0]
      <3>1. s.pc = req.pc /\ s.pc = "next" /\ DOMAIN s = DOMAIN req
        BY <2>1 DEF Refused, ReqRec
      <3>2. /\ "pc" \in DOMAIN s /\ "cancelled" \in DOMAIN s
        BY <3>1 DEF ReqRec
      <3>3. \/ req' = Answered(s) \/ req' = [s EXCEPT !.pc = "progress"]
            \/ req' = [s EXCEPT !.pc = "answered"] \/ req' = [s EXCEPT !.pc = "raised"]
            \/ req' = [s EXCEPT !.pc = "next"]
        BY <2>1 DEF Refused, Recorded
      <3> HIDE DEF s
      <3>4. req'.pc # "calling"
        BY <3>2, <3>3 DEF Answered
      <3> QED
        BY <1>2, <2>1, <3>4 DEF Refused
    <2>2. CASE Progressed
      <3>1. req' = Answered(req) \/ req' = [req EXCEPT !.pc = "next"]
        BY <2>2 DEF Progressed
      <3>2. req'.pc # "calling"
        BY <3>1 DEF Answered, ReqRec
      <3> QED
        BY <1>2, <2>2, <3>2 DEF Progressed
    <2>3. CASE ProgressFails \/ ExecuteEnds \/ LateEnd
      <3>1. ASSUME ProgressFails PROVE req'.pc # "calling"
        <4>1. req' = [req EXCEPT !.pc = "raised"]
          BY <3>1 DEF ProgressFails
        <4> QED
          BY <4>1 DEF ReqRec
      <3>2. ASSUME ExecuteEnds PROVE req'.pc # "calling"
        <4>1. req' = [req EXCEPT !.pc = "answered"] \/ req' = [req EXCEPT !.pc = "raised"]
          BY <3>2 DEF ExecuteEnds
        <4> QED
          BY <4>1 DEF ReqRec
      <3>3. ASSUME LateEnd PROVE req'.pc # "calling"
        <4>1. PICK did \in BOOLEAN :
                req' = [req EXCEPT !.inWorker = 0,
                          !.done = IF did THEN @ \cup {req.inWorker} ELSE @]
          BY <3>3 DEF LateEnd
        <4> QED
          BY <1>1, <4>1 DEF ReqRec
      <3>4. req'.pc # "calling"
        BY <1>1, <2>3, <3>1, <3>2, <3>3
      <3> QED
        BY <1>2, <2>3, <3>4 DEF ProgressFails, ExecuteEnds, LateEnd
    <2>4. ~Returns
      BY <1>1 DEF Returns
    <2> QED
      BY <1>6, <2>1, <2>2, <2>3, <2>4 DEF RequestStep
  <1>7. CASE WorkStarts \/ WorkEnds
    BY <1>1, <1>7 DEF WorkStarts, WorkEnds, Up
  <1>8. CASE Tick
    <2>1. tracker'.seen = tracker.seen /\ tracker'.age = Older(tracker.age, AgeCap)
      BY <1>1, <1>8 DEF Tick
    <2>2. tracker'.seen /\ ~(tracker'.age < KeepaliveTimeout)
      BY <1>1, <2>1 DEF Older, AgeCap
    <2>3. ASSUME NEW c \in Clients PROVE client'[c].life = "gone"
      BY <1>1, <1>8 DEF Tick, ClientRec
    <2> QED
      BY <1>1, <1>8, <2>2, <2>3, Zenon DEF Tick, Deserted, ActiveWork, HasProxy
  <1>9. CASE Poll
    BY <1>1, <1>2, <1>9 DEF Poll
  <1> QED
    BY <1>3, <1>4, <1>5, <1>6, <1>7, <1>8, <1>9 DEF Next, ClientStep

\* An abandoned daemon ends within two poll intervals and the idle limit, however
\* many sessions and connections its clients left behind; only a call that a
\* withdrawn execute still makes takes it longer (_idle_monitor).
THEOREM DesertedDaemonEnds == Spec => DesertedEnds
  <1>1. IInv /\ [Next]_vars =>
          [serving /\ Deserted =>
             /\ TimeLeft \in 0 .. 2 * PollInterval + IdleLimit
             /\ serving' => TimeLeft' <= TimeLeft
             /\ Tick => TimeLeft > 0 /\ TimeLeft' = TimeLeft - 1
             /\ Deserted' \/ Dispatched]_vars
    <2> SUFFICES ASSUME IInv, Next, serving, Deserted
                 PROVE  /\ TimeLeft \in 0 .. 2 * PollInterval + IdleLimit
                        /\ serving' => TimeLeft' <= TimeLeft
                        /\ Tick => TimeLeft > 0 /\ TimeLeft' = TimeLeft - 1
                        /\ Deserted' \/ Dispatched
      BY DEF vars
    <2>1. FrontInv /\ FrontTypes /\ req \in ReqRec
      BY InvParts DEF IInv, FrontInv
    <2>2. TimeLeft \in 0 .. 2 * PollInterval + IdleLimit
      BY <2>1, TimeLeftBound
    <2>3. Tick => TimeLeft > 0 /\ TimeLeft' = TimeLeft - 1
      BY <2>1, TickTakesOne
    <2>4. ASSUME serving' PROVE TimeLeft' <= TimeLeft
      <3>1. CASE Tick
        BY <2>2, <2>3, <3>1
      <3>2. CASE Poll
        BY <2>1, <2>4, <3>2, PollTakesNone
      <3>3. CASE monitor' = monitor
        <4>1. TimeLeft' = TimeLeft
          BY <3>3 DEF TimeLeft
        <4> QED
          BY <2>2, <4>1
      <3>4. Tick \/ Poll \/ monitor' = monitor
        BY DEF Next, ClientStep, RequestStep, Connect, Ping, Attach, Leave, Die,
               ConnectionLost, Batch, Execute, Call, Request, Cancel, Refused, Dispatched,
               Returns, Progressed, ProgressFails, ExecuteEnds, LateEnd, WorkStarts,
               WorkEnds
      <3> QED
        BY <3>1, <3>2, <3>3, <3>4
    <2> QED
      BY <2>1, <2>2, <2>3, <2>4, DesertedStays
  <1> QED
    BY <1>1, InitInv, NextInv, PTL DEF Spec, DesertedEnds
=============================================================================
