--------------------------- MODULE ToolCallsProofs ---------------------------
(* What holds of ToolCalls for every table of tools: the types, the bound of
   the history, the rollback of a failed call, what an undo takes back, and the
   refinement of the edit history. *)
EXTENDS ToolCalls, SequenceTheorems, TLAPS

-----------------------------------------------------------------------------
(* Sequences *)

\* What Tail, SubSeq and Append do to the length and the elements of a history.
LEMMA TailOfSeq ==
  ASSUME NEW S, NEW s \in Seq(S), s # << >>
  PROVE  /\ Head(s) \in S /\ Tail(s) \in Seq(S) /\ Len(Tail(s)) = Len(s) - 1
         /\ Len(s) \in Nat \ {0}
         /\ \A i \in 1 .. Len(Tail(s)) : Tail(s)[i] = s[i + 1]
         /\ Head(s) = s[1]
  OBVIOUS

LEMMA FrontOfSeq ==
  ASSUME NEW S, NEW s \in Seq(S), s # << >>
  PROVE  /\ s[Len(s)] \in S
         /\ SubSeq(s, 1, Len(s) - 1) \in Seq(S)
         /\ Len(SubSeq(s, 1, Len(s) - 1)) = Len(s) - 1
         /\ Len(s) \in Nat \ {0}
  <1>1. Len(s) \in Nat \ {0} /\ s[Len(s)] \in S
    OBVIOUS
  <1>2. \A i \in 1 .. (Len(s) - 1) : s[i] \in S
    BY <1>1
  <1>3. 1 \in Int /\ Len(s) - 1 \in Int
    BY <1>1
  <1>4. /\ SubSeq(s, 1, Len(s) - 1) \in Seq(S)
        /\ Len(SubSeq(s, 1, Len(s) - 1)) = IF 1 <= Len(s) - 1 THEN (Len(s) - 1) - 1 + 1 ELSE 0
    BY <1>2, <1>3, SubSeqProperties, SMT
  <1>5. Len(s) - 1 = IF 1 <= Len(s) - 1 THEN (Len(s) - 1) - 1 + 1 ELSE 0
    BY <1>1
  <1> QED
    BY <1>1, <1>4, <1>5

LEMMA AppendToSeq ==
  ASSUME NEW S, NEW s \in Seq(S), NEW x \in S
  PROVE  Append(s, x) \in Seq(S) /\ Len(Append(s, x)) = Len(s) + 1
  OBVIOUS

LEMMA PrependToSeq ==
  ASSUME NEW S, NEW s \in Seq(S), NEW x \in S
  PROVE  << x >> \o s \in Seq(S) /\ Len(<< x >> \o s) = Len(s) + 1
  OBVIOUS

\* A history that got one more step keeps at most Limit of them.
LEMMA NewestBounded ==
  ASSUME NEW S, NEW s \in Seq(S), NEW x \in S, Len(s) <= Limit
  PROVE  Newest(Append(s, x)) \in Seq(S) /\ Len(Newest(Append(s, x))) <= Limit
  <1> DEFINE a == Append(s, x)
  <1>1. a \in Seq(S) /\ Len(a) = Len(s) + 1 /\ Len(s) \in Nat
    BY AppendToSeq
  <1>2. a # << >>
    BY <1>1
  <1>3. Tail(a) \in Seq(S) /\ Len(Tail(a)) = Len(a) - 1
    BY <1>1, <1>2, TailOfSeq
  <1>4. CASE Len(a) > Limit
    BY <1>1, <1>3, <1>4, BoundsAssumption DEF Newest
  <1>5. CASE ~(Len(a) > Limit)
    BY <1>1, <1>5, BoundsAssumption DEF Newest
  <1> QED
    BY <1>4, <1>5

-----------------------------------------------------------------------------
(* Paths *)

\* A path without its first step has its ends where the path has them.
LEMMA EndAheadOfTail ==
  ASSUME NEW p \in Paths, p # << >>, NEW n \in Nat \ {0}
  PROVE  EndAhead(Tail(p), n) <=> EndAhead(p, n + 1)
  <1>1. /\ Len(Tail(p)) = Len(p) - 1 /\ Len(p) \in Nat \ {0}
        /\ \A i \in 1 .. Len(Tail(p)) : Tail(p)[i] = p[i + 1]
    BY TailOfSeq DEF Paths
  <1>2. ASSUME EndAhead(Tail(p), n) PROVE EndAhead(p, n + 1)
    <2>1. PICK j \in n .. Len(Tail(p)) :
            /\ Tail(p)[j].op = "end" /\ \A k \in n .. (j - 1) : Tail(p)[k].op # "begin"
      BY <1>2 DEF EndAhead
    <2>2. j + 1 \in (n + 1) .. Len(p) /\ p[j + 1].op = "end"
      BY <1>1, <2>1
    <2>3. ASSUME NEW k \in (n + 1) .. j PROVE p[k].op # "begin"
      <3>1. k - 1 \in n .. (j - 1) /\ k - 1 \in 1 .. Len(Tail(p)) /\ (k - 1) + 1 = k
        BY <1>1, <2>1, <2>3
      <3> QED
        BY <1>1, <2>1, <3>1
    <2> QED
      BY <2>1, <2>2, <2>3 DEF EndAhead
  <1>3. ASSUME EndAhead(p, n + 1) PROVE EndAhead(Tail(p), n)
    <2>1. PICK j \in (n + 1) .. Len(p) :
            /\ p[j].op = "end" /\ \A k \in (n + 1) .. (j - 1) : p[k].op # "begin"
      BY <1>3 DEF EndAhead
    <2>2. /\ j - 1 \in n .. Len(Tail(p)) /\ j - 1 \in 1 .. Len(Tail(p)) /\ (j - 1) + 1 = j
      BY <1>1, <2>1
    <2>3. Tail(p)[j - 1].op = "end"
      BY <1>1, <2>1, <2>2
    <2>4. ASSUME NEW k \in n .. ((j - 1) - 1) PROVE Tail(p)[k].op # "begin"
      <3>1. k + 1 \in (n + 1) .. (j - 1) /\ k \in 1 .. Len(Tail(p))
        BY <1>1, <2>1, <2>4
      <3> QED
        BY <1>1, <2>1, <3>1
    <2> QED
      BY <2>2, <2>3, <2>4 DEF EndAhead
  <1> QED
    BY <1>2, <1>3

\* A first step that is no bound of a transaction changes nothing of what is
\* ahead; one that ends a transaction has it ahead, one that begins one not.
LEMMA EndAheadOfStep ==
  ASSUME NEW p \in Paths, p # << >>
  PROVE  /\ Head(p).op \notin {"begin", "end"} => (EndAhead(Tail(p), 1) <=> EndAhead(p, 1))
         /\ Head(p).op = "end" => EndAhead(p, 1)
         /\ Head(p).op = "begin" => ~EndAhead(p, 1)
  <1>1. Len(p) \in Nat \ {0} /\ Head(p) = p[1]
    BY TailOfSeq DEF Paths
  <1>2. EndAhead(Tail(p), 1) <=> EndAhead(p, 2)
    BY EndAheadOfTail
  <1>3. ASSUME p[1].op \notin {"begin", "end"}, EndAhead(p, 2) PROVE EndAhead(p, 1)
    <2>1. PICK j \in 2 .. Len(p) :
            /\ p[j].op = "end" /\ \A k \in 2 .. (j - 1) : p[k].op # "begin"
      BY <1>3 DEF EndAhead
    <2>2. \A k \in 1 .. (j - 1) : p[k].op # "begin"
      BY <1>3, <2>1
    <2> QED
      BY <1>1, <2>1, <2>2 DEF EndAhead
  <1>4. ASSUME p[1].op \notin {"begin", "end"}, EndAhead(p, 1) PROVE EndAhead(p, 2)
    <2>1. PICK j \in 1 .. Len(p) :
            /\ p[j].op = "end" /\ \A k \in 1 .. (j - 1) : p[k].op # "begin"
      BY <1>4 DEF EndAhead
    <2>2. j \in 2 .. Len(p) /\ \A k \in 2 .. (j - 1) : p[k].op # "begin"
      BY <1>4, <2>1
    <2> QED
      BY <2>1, <2>2 DEF EndAhead
  <1>5. ASSUME p[1].op = "end" PROVE EndAhead(p, 1)
    BY <1>1, <1>5 DEF EndAhead
  <1>6. ASSUME p[1].op = "begin", EndAhead(p, 1) PROVE FALSE
    <2>1. PICK j \in 1 .. Len(p) :
            /\ p[j].op = "end" /\ \A k \in 1 .. (j - 1) : p[k].op # "begin"
      BY <1>6 DEF EndAhead
    <2>2. j # 1
      BY <1>6, <2>1
    <2>3. 1 \in 1 .. (j - 1)
      BY <2>1, <2>2
    <2> QED
      BY <1>6, <2>1, <2>3
  <1> QED
    BY <1>1, <1>2, <1>3, <1>4, <1>5, <1>6

\* What is left of a well formed path is well formed, and after the first step
\* a transaction is open if that step begins one, or was and is not ended.
LEMMA WellFormedTail ==
  ASSUME NEW p \in Paths, p # << >>, WellFormed(p)
  PROVE  /\ WellFormed(Tail(p))
         /\ Head(p).op = "begin" => EndAhead(Tail(p), 1)
         /\ Head(p).op \in {"end", "clear"} => ~EndAhead(Tail(p), 1)
         /\ Head(p).op \in {"undo", "redo"} => Tail(p) = << >>
  <1>1. /\ Tail(p) \in Paths /\ Len(Tail(p)) = Len(p) - 1 /\ Len(p) \in Nat \ {0}
        /\ \A i \in 1 .. Len(Tail(p)) : Tail(p)[i] = p[i + 1]
        /\ Head(p) = p[1]
    BY TailOfSeq DEF Paths
  <1>2. ASSUME NEW i \in 1 .. Len(Tail(p))
        PROVE  /\ Tail(p)[i].op = "begin" => EndAhead(Tail(p), i + 1)
               /\ Tail(p)[i].op \in {"end", "clear"} => ~EndAhead(Tail(p), i + 1)
               /\ Tail(p)[i].op \in {"undo", "redo"} => i = Len(Tail(p))
    <2>1. i + 1 \in 1 .. Len(p) /\ Tail(p)[i] = p[i + 1] /\ i + 1 \in Nat \ {0}
      BY <1>1
    <2>2. EndAhead(Tail(p), i + 1) <=> EndAhead(p, (i + 1) + 1)
      BY <2>1, EndAheadOfTail
    <2>3. /\ p[i + 1].op = "begin" => EndAhead(p, (i + 1) + 1)
          /\ p[i + 1].op \in {"end", "clear"} => ~EndAhead(p, (i + 1) + 1)
          /\ p[i + 1].op \in {"undo", "redo"} => i + 1 = Len(p)
      BY <2>1 DEF WellFormed
    <2>4. i + 1 = Len(p) => i = Len(Tail(p))
      <3> DEFINE m == Len(p)
      <3>1. m \in Nat /\ Len(Tail(p)) = m - 1 /\ i \in Int
        BY <1>1, <2>1
      <3> HIDE DEF m
      <3>2. i + 1 = m => i = m - 1
        BY <3>1
      <3> QED
        BY <3>1, <3>2 DEF m
    <2> HIDE DEF EndAhead
    <2> QED
      BY <2>1, <2>2, <2>3, <2>4
  <1>3. EndAhead(Tail(p), 1) <=> EndAhead(p, 1 + 1)
    BY EndAheadOfTail
  <1>4. 1 \in 1 .. Len(p)
    BY <1>1
  <1>5. /\ p[1].op = "begin" => EndAhead(p, 1 + 1)
        /\ p[1].op \in {"end", "clear"} => ~EndAhead(p, 1 + 1)
        /\ p[1].op \in {"undo", "redo"} => 1 = Len(p)
    BY <1>4 DEF WellFormed
  <1>6. Len(p) = 1 => Tail(p) = << >>
    <2>1. Tail(p) \in Seq([op : StepOps, part : Parts]) /\ Len(Tail(p)) = Len(p) - 1
      BY <1>1 DEF Paths
    <2>2. Tail(p) # << >> => Len(Tail(p)) \in Nat \ {0}
      BY <2>1, EmptySeq
    <2> QED
      BY <2>1, <2>2
  <1> QED
    BY <1>1, <1>2, <1>3, <1>5, <1>6 DEF WellFormed

-----------------------------------------------------------------------------
(* The inductive invariant *)

\* A transaction is open as long as its end is ahead.
Bracketed ==
  /\ state = "running" => WellFormed(path) /\ (tx.open <=> EndAhead(path, 1))
  /\ state # "running" => ~tx.open

\* What differs from the start of the call was committed, or a step of undo or
\* redo that ended the call brought it; an open transaction covers the rest.
Covered ==
  state \in {"running", "failed"} /\ backend \in Transactional =>
    /\ tx.open => tx.content = before \/ commits > 0
    /\ ~tx.open => \/ db = before \/ commits > 0
                   \/ state = "running" /\ path = << >>

IInv == TypeOK /\ HistoryBounded /\ Bracketed /\ Covered

\* Steps keep what is said of paths: the step At takes is the path's first.
LEMMA AtStep ==
  ASSUME TypeOK, NEW ops, At(ops)
  PROVE  /\ state = "running" /\ path \in Paths /\ path # << >>
         /\ Tail(path) \in Paths /\ Head(path) \in [op : StepOps, part : Parts]
         /\ Part \in Parts
  <1>1. path \in Paths /\ path # << >> /\ state = "running"
    BY DEF TypeOK, At
  <1>2. Head(path) \in [op : StepOps, part : Parts] /\ Tail(path) \in Paths
    BY <1>1, TailOfSeq DEF Paths
  <1> QED
    BY <1>1, <1>2 DEF Part

LEMMA NoTxType == NoTx \in Transactions /\ NoTx.open = FALSE
  BY DEF NoTx, Transactions, Original, Contents

\* At the start nothing has happened.
LEMMA InitInvariant == Init => IInv
  <1> SUFFICES ASSUME Init PROVE IInv
    OBVIOUS
  <1>1. TypeOK
    <2>1. past \in Seq(Contents) /\ future \in Seq(Contents) /\ path \in Paths
      BY DEF Init, Paths
    <2>2. Original \in Contents
      BY DEF Original, Contents
    <2> QED
      BY <2>1, <2>2, NoTxType DEF Init, TypeOK
  <1>2. HistoryBounded
    BY BoundsAssumption DEF Init, HistoryBounded
  <1>3. Bracketed /\ Covered
    BY NoTxType DEF Init, Bracketed, Covered
  <1> QED
    BY <1>1, <1>2, <1>3 DEF IInv

\* A transaction that ends leaves the history within its bound.
LEMMA CommitTypes ==
  ASSUME TypeOK, HistoryBounded, tx.open, Commit
  PROVE  /\ past' \in Seq(Contents) /\ future' \in Seq(Contents) /\ commits' \in Nat
         /\ tx' = NoTx /\ HistoryBounded'
  <1>1. tx.content \in Contents
    BY DEF TypeOK, Transactions
  <1>2. Len(past) \in Nat /\ Len(future) \in Nat
    BY DEF TypeOK
  <1>3. Len(past) <= Limit
    BY <1>2, BoundsAssumption DEF HistoryBounded
  <1>4. Newest(Append(past, tx.content)) \in Seq(Contents)
        /\ Len(Newest(Append(past, tx.content))) <= Limit
    BY <1>1, <1>3, NewestBounded DEF TypeOK
  <1>5. << >> \in Seq(Contents) /\ Len(<< >>) = 0
    OBVIOUS
  <1>6. CASE db = tx.content
    BY <1>6 DEF Commit, TypeOK, HistoryBounded, history
  <1>7. CASE db # tx.content
    <2>1. past' = Newest(Append(past, tx.content)) /\ future' = << >> /\ commits' = commits + 1
      BY <1>7 DEF Commit
    <2>2. Len(past') \in Nat
      BY <2>1, <1>4
    <2> QED
      BY <2>1, <2>2, <1>4, <1>5, BoundsAssumption DEF Commit, TypeOK, HistoryBounded
  <1> QED
    BY <1>6, <1>7 DEF Commit

\* Every step keeps the types and the bound of the history.
LEMMA NextTypes ==
  ASSUME IInv, [Next]_vars
  PROVE  TypeOK' /\ HistoryBounded'
  <1> USE DEF IInv
  <1>1. ASSUME NEW t \in DOMAIN Tools[backend], NEW p \in Tools[backend][t].paths, Call(t, p)
        PROVE  TypeOK' /\ HistoryBounded'
    <2>1. p \in Paths
      BY <1>1, ToolsAssumption DEF TypeOK
    <2>2. past' \in Seq(Contents) /\ future' \in Seq(Contents) /\ pointed' \in BOOLEAN
          /\ HistoryBounded'
      <3>1. CASE pointed' = TRUE /\ past' = Newest(Append(past, db)) /\ future' = << >>
        <4>1. Len(past) \in Nat /\ Len(future) \in Nat /\ Len(past) <= Limit
          BY BoundsAssumption DEF TypeOK, HistoryBounded
        <4>2. past' \in Seq(Contents) /\ Len(past') <= Limit
          BY <3>1, <4>1, NewestBounded DEF TypeOK
        <4> QED
          BY <3>1, <4>2, BoundsAssumption DEF HistoryBounded
      <3>2. CASE pointed' = FALSE /\ UNCHANGED history
        BY <3>2 DEF TypeOK, HistoryBounded, history
      <3> QED
        BY <1>1, <3>1, <3>2 DEF Call, UndoPoint
    <2> QED
      BY <1>1, <2>1, <2>2 DEF Call, TypeOK
  <1>2. CASE Pass
    BY <1>2, AtStep DEF Pass, Take, TypeOK, HistoryBounded, history, call, ever
  <1>4. CASE Change
    <2>1. Fresh \in Contents
      BY DEF Fresh, Contents, TypeOK
    <2>2. past' \in Seq(Contents) /\ future' \in Seq(Contents) /\ HistoryBounded'
      <3>1. Len(past) \in Nat /\ Len(future) \in Nat /\ Len(<< >>) = 0
        BY DEF TypeOK
      <3>2. CASE UNCHANGED history
        BY <3>2 DEF TypeOK, HistoryBounded, history
      <3>3. CASE Unmarked
        BY <3>1, <3>3, BoundsAssumption DEF TypeOK, HistoryBounded, Unmarked
      <3> QED
        BY <1>4, <3>2, <3>3 DEF Change
    <2> QED
      BY <1>4, <2>1, <2>2, AtStep DEF Change, Take, TypeOK, call, ever
  <1>5. CASE Revert
    <2>1. Len(past) \in Nat /\ Len(future) \in Nat /\ Len(<< >>) = 0
      BY DEF TypeOK
    <2>2. HistoryBounded'
      BY <1>5, <2>1, BoundsAssumption DEF Revert, Unmarked, HistoryBounded
    <2> QED
      BY <1>5, <2>2, AtStep DEF Revert, Unmarked, Take, TypeOK, call, ever
  <1>6. CASE Begin
    <2>1. tx' \in Transactions
      BY <1>6 DEF Begin, Open, Transactions, TypeOK
    <2> QED
      BY <1>6, <2>1, AtStep DEF Begin, Take, TypeOK, HistoryBounded, history, call, ever
  <1>7. CASE End
    BY <1>7, AtStep, CommitTypes, NoTxType DEF End, Take, TypeOK, call, ever
  <1>8. CASE Clear
    <2>1. HistoryBounded'
      BY <1>8, BoundsAssumption DEF Clear, HistoryBounded
    <2> QED
      BY <1>8, <2>1, AtStep DEF Clear, Take, TypeOK, call, ever
  <1>9. CASE Undo
    <2>1. /\ past[Len(past)] \in Contents /\ past' \in Seq(Contents)
          /\ Len(past') = Len(past) - 1 /\ Len(past) \in Nat \ {0}
      BY <1>9, FrontOfSeq DEF Undo, TypeOK
    <2>2. future' \in Seq(Contents) /\ Len(future') = Len(future) + 1 /\ Len(future) \in Nat
      BY <1>9, PrependToSeq DEF Undo, TypeOK
    <2>3. HistoryBounded'
      BY <2>1, <2>2 DEF HistoryBounded
    <2> QED
      BY <1>9, <2>1, <2>2, <2>3, AtStep DEF Undo, Take, TypeOK, call, ever
  <1>10. CASE Redo
    <2>1. /\ Head(future) \in Contents /\ future' \in Seq(Contents)
          /\ Len(future') = Len(future) - 1 /\ Len(future) \in Nat \ {0}
      BY <1>10, TailOfSeq DEF Redo, TypeOK
    <2>2. past' \in Seq(Contents) /\ Len(past') = Len(past) + 1 /\ Len(past) \in Nat
      BY <1>10, AppendToSeq DEF Redo, TypeOK
    <2>3. HistoryBounded'
      BY <2>1, <2>2 DEF HistoryBounded
    <2> QED
      BY <1>10, <2>1, <2>2, <2>3, AtStep DEF Redo, Take, TypeOK, call, ever
  <1>11. CASE Raise
    <2>1. tx.open => tx.content \in Contents /\ tx.changed \subseteq Parts
      BY DEF TypeOK, Transactions
    <2>2. path' \in Paths
      BY <1>11 DEF Raise, Paths
    <2>3. db' \in Contents /\ changed' \subseteq Parts
      BY <1>11, <2>1 DEF Raise, TypeOK
    <2> QED
      BY <1>11, <2>2, <2>3, NoTxType DEF Raise, TypeOK, HistoryBounded, history, call, ever
  <1>12. CASE Terminate
    <2>1. CASE tx.open
      BY <1>12, <2>1, CommitTypes, NoTxType DEF Terminate, TypeOK, Paths, call, ever
    <2>2. CASE ~tx.open
      BY <1>12, <2>2 DEF Terminate, TypeOK, HistoryBounded, Paths, history, call, ever
    <2> QED
      BY <2>1, <2>2
  <1>13. CASE Finish
    BY <1>13 DEF Finish, TypeOK, HistoryBounded, history, call
  <1>14. CASE Return
    BY <1>14 DEF Return, TypeOK, HistoryBounded, history, Original, Contents
  <1>15. CASE UNCHANGED vars
    BY <1>15 DEF vars, TypeOK, HistoryBounded
  <1> QED
    BY <1>1, <1>2, <1>4, <1>5, <1>6, <1>7, <1>8, <1>9, <1>10, <1>11, <1>12, <1>13,
       <1>14, <1>15 DEF Next

\* The steps between the bounds of transactions keep them where they were.
LEMMA InsideStep ==
  ASSUME TypeOK, Bracketed, NEW ops, At(ops), "begin" \notin ops, "end" \notin ops,
         Take, UNCHANGED tx
  PROVE  Bracketed'
  <1>1. state = "running" /\ path \in Paths /\ path # << >> /\ Head(path).op \in ops
    BY AtStep DEF At
  <1>2. WellFormed(path) /\ (tx.open <=> EndAhead(path, 1))
    BY <1>1 DEF Bracketed
  <1>3. WellFormed(Tail(path)) /\ (EndAhead(Tail(path), 1) <=> EndAhead(path, 1))
    BY <1>1, <1>2, WellFormedTail, EndAheadOfStep
  <1>4. state' = "running" /\ path' = Tail(path) /\ tx' = tx
    BY <1>1 DEF Take
  <1> QED
    BY <1>2, <1>3, <1>4 DEF Bracketed

\* Every step keeps the transactions within their brackets.
LEMMA NextBracketed ==
  ASSUME IInv, [Next]_vars
  PROVE  Bracketed'
  <1> USE DEF IInv
  <1>1. ASSUME NEW t \in DOMAIN Tools[backend], NEW p \in Tools[backend][t].paths, Call(t, p)
        PROVE  Bracketed'
    <2>1. WellFormed(p) /\ ~EndAhead(p, 1)
      BY <1>1, PathsAssumption DEF TypeOK
    <2>2. ~tx.open
      BY <1>1 DEF Call, Bracketed
    <2>3. state' = "running" /\ path' = p /\ tx' = tx
      BY <1>1 DEF Call
    <2> QED
      BY <2>1, <2>2, <2>3, NoTxType DEF Bracketed
  <1>2. CASE Pass
    BY <1>2, InsideStep DEF Pass
  <1>4. CASE Change
    BY <1>4, InsideStep DEF Change, Changing
  <1>5. CASE Revert
    BY <1>5, InsideStep DEF Revert
  <1>6. CASE Begin
    <2>1. state = "running" /\ path \in Paths /\ path # << >> /\ Head(path).op = "begin"
      BY <1>6, AtStep DEF Begin, At
    <2>2. WellFormed(Tail(path)) /\ EndAhead(Tail(path), 1)
      BY <2>1, WellFormedTail DEF Bracketed
    <2>3. state' = "running" /\ path' = Tail(path) /\ tx'.open = TRUE
      BY <1>6, <2>1 DEF Begin, Take, Open
    <2> QED
      BY <2>2, <2>3 DEF Bracketed
  <1>7. CASE End
    <2>1. state = "running" /\ path \in Paths /\ path # << >> /\ Head(path).op = "end"
      BY <1>7, AtStep DEF End, At
    <2>2. WellFormed(Tail(path)) /\ ~EndAhead(Tail(path), 1)
      BY <2>1, WellFormedTail DEF Bracketed
    <2>3. state' = "running" /\ path' = Tail(path) /\ tx' = NoTx
      BY <1>7, <2>1 DEF End, Take, Commit
    <2> QED
      BY <2>2, <2>3, NoTxType DEF Bracketed
  <1>8. CASE Clear
    BY <1>8, InsideStep DEF Clear
  <1>9. CASE Undo
    BY <1>9, InsideStep DEF Undo
  <1>10. CASE Redo
    BY <1>10, InsideStep DEF Redo
  <1>11. CASE Raise
    BY <1>11, NoTxType DEF Raise, Bracketed
  <1>12. CASE Terminate
    <2>1. ~tx'.open
      BY <1>12, NoTxType DEF Terminate, Commit
    <2> QED
      BY <1>12, <2>1 DEF Terminate, Bracketed
  <1>13. CASE Finish
    <2>1. ~EndAhead(<< >>, 1)
      BY DEF EndAhead
    <2>2. ~tx.open
      BY <1>13, <2>1 DEF Finish, Bracketed
    <2> QED
      BY <1>13, <2>2 DEF Finish, Bracketed
  <1>14. CASE Return
    BY <1>14 DEF Return, Bracketed
  <1>15. CASE UNCHANGED vars
    BY <1>15 DEF vars, Bracketed
  <1> QED
    BY <1>1, <1>2, <1>4, <1>5, <1>6, <1>7, <1>8, <1>9, <1>10, <1>11, <1>12, <1>13,
       <1>14, <1>15 DEF Next

\* Every step keeps what was not committed inside the open transaction.
LEMMA NextCovered ==
  ASSUME IInv, [Next]_vars
  PROVE  Covered'
  <1> USE DEF IInv
  <1>1. ASSUME NEW t \in DOMAIN Tools[backend], NEW p \in Tools[backend][t].paths, Call(t, p)
        PROVE  Covered'
    <2>1. ~tx'.open /\ before' = db'
      BY <1>1, NoTxType DEF Call, Bracketed
    <2> QED
      BY <2>1 DEF Covered
  <1>2. CASE Pass
    BY <1>2 DEF Pass, Take, At, Covered, call, ever
  <1>4. CASE Change
    BY <1>4 DEF Change, Take, At, Covered, call, ever
  <1>5. CASE Revert
    BY <1>5 DEF Revert, Take, Covered, call, ever
  <1>6. CASE Begin
    BY <1>6 DEF Begin, Take, At, Covered, Open, call, ever
  <1>7. CASE End
    <2>1. ~tx'.open
      BY <1>7, NoTxType DEF End, Commit
    <2>2. commits \in Nat
      BY DEF TypeOK
    <2>3. CASE db = tx.content
      BY <1>7, <2>1, <2>3 DEF End, Commit, Take, At, Covered, call, ever
    <2>4. CASE db # tx.content
      BY <1>7, <2>1, <2>2, <2>4 DEF End, Commit, Take, At, Covered, call, ever
    <2> QED
      BY <2>3, <2>4
  <1>8. CASE Clear
    BY <1>8 DEF Clear, Take, At, Covered, call, ever
  <1>9. CASE Undo
    <2>1. Tail(path) = << >>
      BY <1>9, AtStep, WellFormedTail DEF Undo, At, Bracketed
    <2> QED
      BY <1>9, <2>1 DEF Undo, Take, At, Covered, call, ever
  <1>10. CASE Redo
    <2>1. Tail(path) = << >>
      BY <1>10, AtStep, WellFormedTail DEF Redo, At, Bracketed
    <2> QED
      BY <1>10, <2>1 DEF Redo, Take, At, Covered, call, ever
  <1>11. CASE Raise
    <2>1. ~tx'.open
      BY <1>11, NoTxType DEF Raise
    <2> QED
      BY <1>11, <2>1 DEF Raise, At, Covered, call, ever
  <1>12. CASE Terminate
    BY <1>12 DEF Terminate, Covered
  <1>13. CASE Finish
    BY <1>13 DEF Finish, Covered
  <1>14. CASE Return
    BY <1>14 DEF Return, Covered
  <1>15. CASE UNCHANGED vars
    BY <1>15 DEF vars, Covered
  <1> QED
    BY <1>1, <1>2, <1>4, <1>5, <1>6, <1>7, <1>8, <1>9, <1>10, <1>11, <1>12, <1>13,
       <1>14, <1>15 DEF Next

\* The invariant holds in every reachable state.
THEOREM ToolCallsInvariant == Spec => []IInv
  <1>1. Init => IInv
    BY InitInvariant
  <1>2. IInv /\ [Next]_vars => IInv'
    BY NextTypes, NextBracketed, NextCovered DEF IInv
  <1> QED
    BY <1>1, <1>2, PTL DEF Spec

\* Types, the history's bound and no leaked transaction, for every table of
\* tools and every number of calls, however a call ends.
THEOREM CallsInvariant == Spec => []CallsInv
  <1>1. IInv => CallsInv
    BY NoTxType DEF IInv, Bracketed, CallsInv, NoTransactionLeaks
  <1> QED
    BY <1>1, ToolCallsInvariant, PTL

\* A failed call in a backend with transactions leaves what it found, or what
\* it had committed.
THEOREM FailedCallsRollBack == Spec => []WhatStaysWasCommitted
  <1>1. IInv => WhatStaysWasCommitted
    BY NoTxType DEF IInv, Bracketed, Covered, WhatStaysWasCommitted
  <1> QED
    BY <1>1, ToolCallsInvariant, PTL

-----------------------------------------------------------------------------
(* A failed call leaves no undo step *)

\* What is said of a path's steps from n + 1 on is said of its tail's from n on.
LEMMA InfallibleTail ==
  ASSUME NEW p \in Paths, p # << >>, NEW n \in Nat \ {0}, Infallible(p, n + 1)
  PROVE  Infallible(Tail(p), n)
  <1>1. /\ Len(Tail(p)) = Len(p) - 1 /\ Len(p) \in Nat \ {0}
        /\ \A i \in 1 .. Len(Tail(p)) : Tail(p)[i] = p[i + 1]
    BY TailOfSeq DEF Paths
  <1>2. ASSUME NEW k \in n .. Len(Tail(p)) PROVE Tail(p)[k].op \notin Fallible
    <2>1. k + 1 \in (n + 1) .. Len(p) /\ k \in 1 .. Len(Tail(p))
      BY <1>1, <1>2
    <2> QED
      BY <1>1, <2>1 DEF Infallible
  <1> QED
    BY <1>2 DEF Infallible

LEMMA SealedTail ==
  ASSUME NEW p \in Paths, p # << >>, NEW n \in Nat \ {0}, Sealed(p, n + 1)
  PROVE  Sealed(Tail(p), n)
  <1>1. /\ Len(Tail(p)) = Len(p) - 1 /\ Len(p) \in Nat \ {0}
        /\ \A i \in 1 .. Len(Tail(p)) : Tail(p)[i] = p[i + 1]
    BY TailOfSeq DEF Paths
  <1>2. ASSUME NEW j \in n .. Len(Tail(p)), Tail(p)[j].op = "end"
        PROVE  Infallible(Tail(p), j + 1)
    <2>1. j + 1 \in (n + 1) .. Len(p) /\ j \in 1 .. Len(Tail(p)) /\ j + 1 \in Nat \ {0}
      BY <1>1, <1>2
    <2>2. Infallible(p, (j + 1) + 1)
      BY <1>1, <1>2, <2>1 DEF Sealed
    <2> QED
      BY <2>1, <2>2, InfallibleTail
  <1> QED
    BY <1>2 DEF Sealed

\* What a step leaves of a path in which commits come last.
LEMMA CommitsLastTail ==
  ASSUME NEW p \in Paths, p # << >>
  PROVE  /\ CommitsLast(p) => CommitsLast(Tail(p))
         /\ CommitsLast(p) /\ Head(p).op \in Changing => Sealed(Tail(p), 1)
         /\ Sealed(p, 1) => Sealed(Tail(p), 1)
         /\ Sealed(p, 1) /\ Head(p).op = "end" => Infallible(Tail(p), 1)
         /\ Infallible(p, 1) => Infallible(Tail(p), 1) /\ Head(p).op \notin Fallible
  <1>1. /\ Len(Tail(p)) = Len(p) - 1 /\ Len(p) \in Nat \ {0}
        /\ \A i \in 1 .. Len(Tail(p)) : Tail(p)[i] = p[i + 1]
        /\ Head(p) = p[1]
    BY TailOfSeq DEF Paths
  <1>2. 1 \in 1 .. Len(p) /\ (\A k \in 2 .. Len(p) : k \in 1 .. Len(p)) /\ 1 + 1 = 2
    BY <1>1
  <1>3. ASSUME CommitsLast(p), NEW i \in 1 .. Len(Tail(p)), Tail(p)[i].op \in Changing
        PROVE  Sealed(Tail(p), i + 1)
    <2>1. i + 1 \in 1 .. Len(p) /\ i + 1 \in Nat \ {0}
      BY <1>1, <1>3
    <2>2. Sealed(p, (i + 1) + 1)
      BY <1>1, <1>3, <2>1 DEF CommitsLast
    <2> QED
      BY <2>1, <2>2, SealedTail
  <1>4. ASSUME CommitsLast(p), Head(p).op \in Changing PROVE Sealed(Tail(p), 1)
    <2>1. Sealed(p, 1 + 1)
      BY <1>1, <1>2, <1>4 DEF CommitsLast
    <2> QED
      BY <2>1, SealedTail
  <1>5. ASSUME Sealed(p, 1) PROVE Sealed(Tail(p), 1)
    <2>1. Sealed(p, 1 + 1)
      BY <1>2, <1>5 DEF Sealed
    <2> QED
      BY <2>1, SealedTail
  <1>6. ASSUME Sealed(p, 1), Head(p).op = "end" PROVE Infallible(Tail(p), 1)
    <2>1. Infallible(p, 1 + 1)
      BY <1>1, <1>2, <1>6 DEF Sealed
    <2> QED
      BY <2>1, InfallibleTail
  <1>7. ASSUME Infallible(p, 1) PROVE Infallible(Tail(p), 1) /\ Head(p).op \notin Fallible
    <2>1. Infallible(p, 1 + 1)
      BY <1>2, <1>7 DEF Infallible
    <2>2. p[1].op \notin Fallible
      BY <1>2, <1>7 DEF Infallible
    <2> QED
      BY <1>1, <2>1, <2>2, InfallibleTail
  <1> QED
    BY <1>3, <1>4, <1>5, <1>6, <1>7 DEF CommitsLast

\* The calls that may not fail after a commit.
Whole == backend \in Transactional /\ tool \notin Partial

\* In such a call nothing can raise after a commit, and nothing after the end
\* of a transaction that has changed the database.
LastCommits ==
  /\ state = "idle" => commits = 0
  /\ state = "failed" /\ Whole => commits = 0
  /\ state = "running" /\ Whole =>
       /\ CommitsLast(path)
       /\ tx.open /\ db # tx.content => Sealed(path, 1)
       /\ commits > 0 => Infallible(path, 1)

LEMMA LastCommitsStep ==
  ASSUME TypeOK, LastCommits, NEW ops, At(ops), Take, Whole
  PROVE  /\ Whole' /\ state' = "running" /\ path' = Tail(path)
         /\ CommitsLast(path')
         /\ tx.open /\ db # tx.content => Sealed(path', 1)
         /\ commits > 0 => Infallible(path', 1)
  <1>1. state = "running" /\ path \in Paths /\ path # << >>
    BY AtStep
  <1>2. Whole' /\ state' = "running" /\ path' = Tail(path)
    BY <1>1 DEF Take, Whole, call, ever
  <1> QED
    BY <1>1, <1>2, CommitsLastTail DEF LastCommits

\* The steps that neither change the database nor bound a transaction.
LEMMA LastCommitsPass ==
  ASSUME TypeOK, LastCommits, NEW ops, At(ops), Take, UNCHANGED <<db, commits, tx>>
  PROVE  LastCommits'
  <1>1. state = "running" /\ state' = "running" /\ (Whole' <=> Whole)
    BY AtStep DEF Take, Whole, call, ever
  <1> QED
    BY <1>1, LastCommitsStep DEF LastCommits

\* Every step keeps the commits last.
LEMMA NextLastCommits ==
  ASSUME IInv, LastCommits, [Next]_vars
  PROVE  LastCommits'
  <1> USE DEF IInv
  <1>1. ASSUME NEW t \in DOMAIN Tools[backend], NEW p \in Tools[backend][t].paths, Call(t, p)
        PROVE  LastCommits'
    <2>1. commits' = 0 /\ state' = "running" /\ path' = p /\ tool' = t /\ backend' = backend
          /\ ~tx'.open
      BY <1>1, NoTxType DEF Call, LastCommits, Bracketed
    <2>2. Whole' => CommitsLast(p)
      BY <1>1, <2>1, CommitsLastAssumption DEF Whole
    <2> QED
      BY <2>1, <2>2 DEF LastCommits
  <1>2. CASE Pass
    BY <1>2, LastCommitsPass DEF Pass
  <1>4. CASE Change
    <2>1. state = "running" /\ state' = "running" /\ (Whole' <=> Whole) /\ tx' = tx
          /\ commits' = commits
      BY <1>4, AtStep DEF Change, Take, Whole, call, ever
    <2>2. ASSUME Whole PROVE Sealed(path', 1) /\ CommitsLast(path') /\ (commits > 0 => Infallible(path', 1))
      <3>1. path \in Paths /\ path # << >> /\ Head(path).op \in Changing /\ CommitsLast(path)
        BY <1>4, <2>1, <2>2, AtStep DEF Change, At, LastCommits
      <3> QED
        BY <1>4, <2>2, <3>1, LastCommitsStep, CommitsLastTail DEF Change
    <2> QED
      BY <2>1, <2>2 DEF LastCommits
  <1>5. CASE Revert
    BY <1>5, AtStep DEF Revert, Take, Whole, LastCommits, call, ever
  <1>6. CASE Begin
    <2>1. state' = "running" /\ (Whole' <=> Whole) /\ db' = db /\ commits' = commits
          /\ tx'.content = db
      BY <1>6, AtStep DEF Begin, Take, Whole, Open, call, ever
    <2> QED
      BY <1>6, <2>1, LastCommitsStep DEF Begin, LastCommits
  <1>7. CASE End
    <2>1. state = "running" /\ state' = "running" /\ (Whole' <=> Whole) /\ ~tx'.open
      BY <1>7, AtStep, NoTxType DEF End, Take, Commit, Whole, call, ever
    <2>2. ASSUME Whole PROVE CommitsLast(path') /\ (commits' > 0 => Infallible(path', 1))
      <3>1. path \in Paths /\ path # << >> /\ Head(path).op = "end"
        BY <1>7, AtStep DEF End, At
      <3>2. CASE db = tx.content
        BY <1>7, <2>2, <3>2, LastCommitsStep DEF End, Commit
      <3>3. CASE db # tx.content
        <4>1. Sealed(path, 1)
          BY <1>7, <2>1, <2>2, <3>3 DEF End, LastCommits
        <4> QED
          BY <1>7, <2>2, <3>1, <4>1, CommitsLastTail, LastCommitsStep DEF End
      <3> QED
        BY <3>2, <3>3
    <2> QED
      BY <2>1, <2>2 DEF LastCommits
  <1>8. CASE Clear
    BY <1>8, LastCommitsPass DEF Clear
  <1>9. CASE Undo
    BY <1>9, AtStep, LastCommitsStep DEF Undo, Take, Whole, LastCommits, call, ever
  <1>10. CASE Redo
    BY <1>10, AtStep, LastCommitsStep DEF Redo, Take, Whole, LastCommits, call, ever
  <1>11. CASE Raise
    <2>1. state = "running" /\ state' = "failed" /\ (Whole' <=> Whole) /\ commits' = commits
      BY <1>11, AtStep DEF Raise, Whole, call, ever
    <2>2. Head(path).op \in Fallible /\ path \in Paths /\ path # << >> /\ commits \in Nat
      BY <1>11, AtStep DEF Raise, At, TypeOK
    <2>3. Whole => ~(commits > 0)
      BY <2>1, <2>2, CommitsLastTail DEF LastCommits
    <2> QED
      BY <2>1, <2>2, <2>3 DEF LastCommits
  <1>12. CASE Terminate
    BY <1>12 DEF Terminate, LastCommits
  <1>13. CASE Finish
    BY <1>13 DEF Finish, LastCommits
  <1>14. CASE Return
    BY <1>14 DEF Return, LastCommits
  <1>15. CASE UNCHANGED vars
    BY <1>15 DEF vars, LastCommits, Whole
  <1> QED
    BY <1>1, <1>2, <1>4, <1>5, <1>6, <1>7, <1>8, <1>9, <1>10, <1>11, <1>12, <1>13,
       <1>14, <1>15 DEF Next

\* "a failed tool leaves nothing behind" (transaction): for every table of tools
\* in which nothing can raise after a commit, a call that failed has left the
\* content it found and no undo step.
THEOREM FailedCallsLeaveNothing == Spec => []FailedCallLeavesNothing
  <1>1. Init => LastCommits
    BY NoTxType DEF Init, LastCommits
  <1>2. IInv /\ LastCommits /\ [Next]_vars => LastCommits'
    BY NextLastCommits
  <1>3. LastCommits /\ WhatStaysWasCommitted => FailedCallLeavesNothing
    BY DEF LastCommits, Whole, FailedCallLeavesNothing
  <1> QED
    BY <1>1, <1>2, <1>3, ToolCallsInvariant, FailedCallsRollBack, PTL DEF Spec

-----------------------------------------------------------------------------
(* Each call is one undo step *)

\* What is said of a path's steps from n + 1 on is said of its tail's from n on.
LEMMA ForgottenTail ==
  ASSUME NEW p \in Paths, p # << >>, NEW n \in Nat \ {0}, Forgotten(p, n + 1)
  PROVE  Forgotten(Tail(p), n)
  <1>1. /\ Len(Tail(p)) = Len(p) - 1 /\ Len(p) \in Nat \ {0}
        /\ \A i \in 1 .. Len(Tail(p)) : Tail(p)[i] = p[i + 1]
    BY TailOfSeq DEF Paths
  <1>2. PICK k \in (n + 1) .. (Len(p) - 1) :
          /\ p[k].op = "end" /\ p[k + 1].op = "clear"
          /\ \A l \in (n + 1) .. (k - 1) : p[l].op # "end"
    BY DEF Forgotten
  <1>3. /\ k - 1 \in n .. (Len(Tail(p)) - 1) /\ k - 1 \in 1 .. Len(Tail(p))
        /\ k \in 1 .. Len(Tail(p)) /\ (k - 1) + 1 = k
    BY <1>1, <1>2
  <1>4. Tail(p)[k - 1].op = "end" /\ Tail(p)[(k - 1) + 1].op = "clear"
    BY <1>1, <1>2, <1>3
  <1>5. ASSUME NEW l \in n .. ((k - 1) - 1) PROVE Tail(p)[l].op # "end"
    <2>1. l + 1 \in (n + 1) .. (k - 1) /\ l \in 1 .. Len(Tail(p))
      BY <1>1, <1>2, <1>5
    <2> QED
      BY <1>1, <1>2, <2>1
  <1> QED
    BY <1>3, <1>4, <1>5 DEF Forgotten

LEMMA SettledTail ==
  ASSUME NEW p \in Paths, p # << >>, NEW n \in Nat \ {0}, Settled(p, n + 1)
  PROVE  Settled(Tail(p), n)
  <1>1. /\ Len(Tail(p)) = Len(p) - 1 /\ Len(p) \in Nat \ {0}
        /\ \A i \in 1 .. Len(Tail(p)) : Tail(p)[i] = p[i + 1]
    BY TailOfSeq DEF Paths
  <1>2. ASSUME NEW j \in n .. Len(Tail(p))
        PROVE  /\ Tail(p)[j].op \notin {"undo", "redo"}
               /\ Tail(p)[j].op = "begin" => Forgotten(Tail(p), j + 1)
    <2>1. /\ j + 1 \in (n + 1) .. Len(p) /\ j \in 1 .. Len(Tail(p))
          /\ j + 1 \in Nat \ {0} /\ Tail(p)[j] = p[j + 1]
      BY <1>1, <1>2
    <2>2. /\ p[j + 1].op \notin {"undo", "redo"}
          /\ p[j + 1].op = "begin" => Forgotten(p, (j + 1) + 1)
      BY <2>1 DEF Settled
    <2> HIDE DEF Forgotten
    <2> QED
      BY <2>1, <2>2, ForgottenTail
  <1> QED
    BY <1>2 DEF Settled

\* What a step leaves of a path that makes one undo step.
LEMMA OneUndoStepTail ==
  ASSUME NEW p \in Paths, p # << >>
  PROVE  /\ OneUndoStep(p) => OneUndoStep(Tail(p))
         /\ OneUndoStep(p) /\ Head(p).op \in Changing => Settled(Tail(p), 1)
         /\ Settled(p, 1) => Settled(Tail(p), 1) /\ Head(p).op \notin {"undo", "redo"}
         /\ Settled(p, 1) /\ Head(p).op = "begin" => Forgotten(Tail(p), 1)
         /\ Forgotten(p, 1) /\ Head(p).op # "end" => Forgotten(Tail(p), 1)
         /\ Forgotten(p, 1) /\ Head(p).op = "end" =>
              Tail(p) # << >> /\ Head(Tail(p)).op = "clear"
  <1>1. /\ Tail(p) \in Paths /\ Len(Tail(p)) = Len(p) - 1 /\ Len(p) \in Nat \ {0}
        /\ \A i \in 1 .. Len(Tail(p)) : Tail(p)[i] = p[i + 1]
        /\ Head(p) = p[1]
    BY TailOfSeq DEF Paths
  <1>2. 1 \in 1 .. Len(p) /\ (\A k \in 2 .. Len(p) : k \in 1 .. Len(p)) /\ 1 + 1 = 2
    BY <1>1
  <1>3. ASSUME OneUndoStep(p), NEW i \in 1 .. Len(Tail(p)), Tail(p)[i].op \in Changing
        PROVE  Settled(Tail(p), i + 1)
    <2>1. i + 1 \in 1 .. Len(p) /\ i + 1 \in Nat \ {0}
      BY <1>1, <1>3
    <2>2. Settled(p, (i + 1) + 1)
      BY <1>1, <1>3, <2>1 DEF OneUndoStep
    <2> QED
      BY <2>1, <2>2, SettledTail
  <1>4. ASSUME OneUndoStep(p), Head(p).op \in Changing PROVE Settled(Tail(p), 1)
    <2>1. Settled(p, 1 + 1)
      BY <1>1, <1>2, <1>4 DEF OneUndoStep
    <2> QED
      BY <2>1, SettledTail
  <1>5. ASSUME Settled(p, 1)
        PROVE  /\ Settled(Tail(p), 1) /\ Head(p).op \notin {"undo", "redo"}
               /\ Head(p).op = "begin" => Forgotten(Tail(p), 1)
    <2>1. Settled(p, 1 + 1)
      BY <1>2, <1>5 DEF Settled
    <2>2. Head(p).op \notin {"undo", "redo"} /\ (Head(p).op = "begin" => Forgotten(p, 1 + 1))
      BY <1>1, <1>2, <1>5 DEF Settled
    <2> HIDE DEF Forgotten
    <2> QED
      BY <2>1, <2>2, SettledTail, ForgottenTail
  <1>6. ASSUME Forgotten(p, 1)
        PROVE  /\ Head(p).op # "end" => Forgotten(Tail(p), 1)
               /\ Head(p).op = "end" => Tail(p) # << >> /\ Head(Tail(p)).op = "clear"
    <2>1. PICK k \in 1 .. (Len(p) - 1) :
            /\ p[k].op = "end" /\ p[k + 1].op = "clear"
            /\ \A l \in 1 .. (k - 1) : p[l].op # "end"
      BY <1>6 DEF Forgotten
    <2>2. CASE k = 1
      <3>1. Len(Tail(p)) \in Nat \ {0} /\ 1 \in 1 .. Len(Tail(p))
        BY <1>1, <2>1, <2>2
      <3>2. Tail(p)[1].op = "clear"
        BY <1>1, <2>1, <2>2, <3>1
      <3>3. Tail(p) # << >>
        BY <3>1
      <3>4. Head(Tail(p)) = Tail(p)[1]
        BY <1>1, <3>3, TailOfSeq DEF Paths
      <3> QED
        BY <1>1, <2>1, <2>2, <3>2, <3>3, <3>4
    <2>3. CASE k # 1
      <3>1. 1 \in 1 .. (k - 1) /\ k \in (1 + 1) .. (Len(p) - 1)
        BY <1>1, <2>1, <2>3
      <3>2. \A l \in (1 + 1) .. (k - 1) : p[l].op # "end"
        BY <2>1
      <3>3. Forgotten(p, 1 + 1)
        BY <2>1, <3>1, <3>2 DEF Forgotten
      <3> QED
        BY <1>1, <2>1, <3>1, <3>3, ForgottenTail
    <2> QED
      BY <2>2, <2>3
  <1> QED
    BY <1>3, <1>4, <1>5, <1>6 DEF OneUndoStep

\* A content that an undo may return to, and a history of such contents.
Landing(c) == c.split \/ c \in rests
AllLandings(h) == \A i \in 1 .. Len(h) : Landing(h[i])

\* What the operations on a history do to its landings.
LEMMA NewestLandings ==
  ASSUME NEW s \in Seq(Contents), NEW x \in Contents, AllLandings(s), Landing(x)
  PROVE  AllLandings(Append(s, x)) /\ AllLandings(Newest(Append(s, x)))
  <1> DEFINE a == Append(s, x)
  <1>1. a \in Seq(Contents) /\ Len(a) = Len(s) + 1 /\ Len(s) \in Nat
    BY AppendToSeq
  <1>2. \A i \in 1 .. Len(a) : a[i] = IF i \in 1 .. Len(s) THEN s[i] ELSE x
    BY <1>1
  <1>3. AllLandings(a)
    BY <1>1, <1>2 DEF AllLandings
  <1>4. a # << >>
    BY <1>1
  <1>5. /\ Len(Tail(a)) = Len(a) - 1
        /\ \A i \in 1 .. Len(Tail(a)) : Tail(a)[i] = a[i + 1]
    BY <1>1, <1>4, TailOfSeq
  <1> HIDE DEF a
  <1>6. \A i \in 1 .. Len(Tail(a)) : i + 1 \in 1 .. Len(a)
    BY <1>1, <1>5
  <1>7. AllLandings(Tail(a))
    BY <1>3, <1>5, <1>6 DEF AllLandings
  <1> QED
    BY <1>3, <1>7 DEF Newest, a

LEMMA TailLandings ==
  ASSUME NEW s \in Seq(Contents), s # << >>, AllLandings(s)
  PROVE  AllLandings(Tail(s)) /\ Landing(Head(s))
  <1>1. /\ Len(Tail(s)) = Len(s) - 1 /\ Len(s) \in Nat \ {0} /\ Head(s) = s[1]
        /\ \A i \in 1 .. Len(Tail(s)) : Tail(s)[i] = s[i + 1]
    BY TailOfSeq
  <1>2. 1 \in 1 .. Len(s) /\ \A i \in 1 .. Len(Tail(s)) : i + 1 \in 1 .. Len(s)
    BY <1>1
  <1> QED
    BY <1>1, <1>2 DEF AllLandings

LEMMA FrontLandings ==
  ASSUME NEW s \in Seq(Contents), s # << >>, AllLandings(s)
  PROVE  AllLandings(SubSeq(s, 1, Len(s) - 1)) /\ Landing(s[Len(s)])
  <1> DEFINE f == SubSeq(s, 1, Len(s) - 1)
  <1>1. Len(f) = Len(s) - 1 /\ Len(s) \in Nat \ {0} /\ Len(s) \in 1 .. Len(s)
    BY FrontOfSeq
  <1>2. \A i \in 1 .. Len(f) : f[i] = s[i]
    BY <1>1
  <1>3. \A i \in 1 .. Len(f) : i \in 1 .. Len(s)
    BY <1>1
  <1> HIDE DEF f
  <1>4. AllLandings(f)
    BY <1>2, <1>3 DEF AllLandings
  <1> QED
    BY <1>1, <1>4 DEF AllLandings, f

LEMMA PrependLandings ==
  ASSUME NEW s \in Seq(Contents), NEW x \in Contents, AllLandings(s), Landing(x)
  PROVE  AllLandings(<< x >> \o s)
  <1> DEFINE q == << x >> \o s
  <1>1. Len(q) = Len(s) + 1 /\ Len(s) \in Nat
    BY PrependToSeq
  <1>2. \A i \in 1 .. Len(q) : q[i] = IF i = 1 THEN x ELSE s[i - 1]
    BY <1>1
  <1>3. \A i \in 1 .. Len(q) : i # 1 => i - 1 \in 1 .. Len(s)
    BY <1>1
  <1> HIDE DEF q
  <1>4. AllLandings(q)
    BY <1>2, <1>3 DEF AllLandings
  <1> QED
    BY <1>4 DEF q

\* The next step of the call clears the history.
AboutToClear == state = "running" /\ path # << >> /\ Head(path).op = "clear"

\* The history returns to landings, unless it is about to be cleared; what is
\* no landing and may enter the history is forgotten with it.
Landings ==
  /\ state # "idle" => before \in rests
  /\ state = "idle" => db \in rests
  /\ state # "terminated" => (AllLandings(past) /\ AllLandings(future)) \/ AboutToClear
  /\ state = "running" =>
       /\ tool \notin Splitting => OneUndoStep(path)
       /\ ~Landing(db) => tool \notin Splitting /\ Settled(path, 1)
       /\ tx.open /\ ~Landing(tx.content) => Forgotten(path, 1)

LEMMA LandingsStep ==
  ASSUME TypeOK, Landings, NEW ops, At(ops), Take
  PROVE  /\ state = "running" /\ state' = "running" /\ path' = Tail(path)
         /\ tool' = tool /\ before' = before /\ rests' = rests /\ before \in rests
         /\ tool \notin Splitting => OneUndoStep(path')
         /\ ~Landing(db) => tool \notin Splitting /\ Settled(path', 1)
         /\ tx.open /\ ~Landing(tx.content) /\ Head(path).op # "end" => Forgotten(path', 1)
         /\ Head(path).op # "clear" => AllLandings(past) /\ AllLandings(future)
         /\ Head(path).op \in ops
  <1>1. state = "running" /\ path \in Paths /\ path # << >> /\ Head(path).op \in ops
    BY AtStep DEF At
  <1>2. /\ state' = "running" /\ path' = Tail(path) /\ tool' = tool /\ before' = before
        /\ rests' = rests
    BY <1>1 DEF Take, call, ever
  <1> QED
    BY <1>1, <1>2, OneUndoStepTail DEF Landings, AboutToClear

\* The steps that neither change the database nor its history nor bound a
\* transaction.
LEMMA LandingsPass ==
  ASSUME TypeOK, Landings, NEW ops, At(ops), "end" \notin ops, "clear" \notin ops,
         Take, UNCHANGED <<db, history, tx>>
  PROVE  Landings'
  <1>1. /\ state' = "running" /\ before' \in rests' /\ rests' = rests /\ tool' = tool
        /\ tool \notin Splitting => OneUndoStep(path')
        /\ ~Landing(db) => tool \notin Splitting /\ Settled(path', 1)
        /\ tx.open /\ ~Landing(tx.content) => Forgotten(path', 1)
        /\ AllLandings(past) /\ AllLandings(future)
    BY LandingsStep
  <1>2. AllLandings(past)' /\ AllLandings(future)' /\ (Landing(db)' <=> Landing(db))
        /\ (Landing(tx.content)' <=> Landing(tx.content)) /\ tx' = tx
    BY <1>1 DEF AllLandings, Landing, history
  <1> QED
    BY <1>1, <1>2 DEF Landings

\* Every step keeps the landings.
LEMMA NextLandings ==
  ASSUME IInv, Landings, [Next]_vars
  PROVE  Landings'
  <1> USE DEF IInv
  <1>0. past \in Seq(Contents) /\ future \in Seq(Contents) /\ db \in Contents
    BY DEF TypeOK
  <1>1. ASSUME NEW t \in DOMAIN Tools[backend], NEW p \in Tools[backend][t].paths, Call(t, p)
        PROVE  Landings'
    <2>1. /\ state' = "running" /\ path' = p /\ tool' = t /\ db' = db /\ before' = db
          /\ rests' = rests /\ db \in rests /\ tx' = tx /\ ~tx.open
          /\ AllLandings(past) /\ AllLandings(future)
      BY <1>1 DEF Call, Landings, AboutToClear, Bracketed
    <2>2. t \notin Splitting => OneUndoStep(p)
      BY <1>1, OneUndoStepAssumption DEF TypeOK
    <2>3. AllLandings(past') /\ AllLandings(future')
      <3>1. CASE UNCHANGED history
        BY <2>1, <3>1 DEF history
      <3>2. CASE past' = Newest(Append(past, db)) /\ future' = << >>
        <4>1. Landing(db)
          BY <2>1 DEF Landing
        <4>2. AllLandings(past')
          BY <1>0, <2>1, <3>2, <4>1, NewestLandings
        <4>3. AllLandings(<< >>)
          BY DEF AllLandings
        <4> QED
          BY <3>2, <4>2, <4>3
      <3> QED
        BY <1>1, <3>1, <3>2 DEF Call, UndoPoint
    <2>4. AllLandings(past)' /\ AllLandings(future)'
      BY <2>1, <2>3 DEF AllLandings, Landing
    <2>5. Landing(db)'
      BY <2>1 DEF Landing
    <2> QED
      BY <2>1, <2>2, <2>4, <2>5 DEF Landings
  <1>2. CASE Pass
    BY <1>2, LandingsPass, AtStep DEF Pass, At
  <1>4. CASE Change
    <2>1. /\ state = "running" /\ state' = "running" /\ path' = Tail(path) /\ tool' = tool
          /\ before' \in rests' /\ rests' = rests /\ tx' = tx
          /\ tool \notin Splitting => OneUndoStep(path')
          /\ tx.open /\ ~Landing(tx.content) => Forgotten(path', 1)
          /\ AllLandings(past) /\ AllLandings(future)
          /\ Head(path).op \in Changing
      BY <1>4, LandingsStep DEF Change, Changing
    <2>2. tool \notin Splitting => Settled(path', 1)
      <3>1. path \in Paths /\ path # << >>
        BY <1>4, AtStep DEF Change
      <3> QED
        BY <2>1, <3>1, OneUndoStepTail DEF Landings
    <2>3. tool \in Splitting => Landing(db)'
      BY <1>4 DEF Change, Fresh, Landing
    <2>4. AllLandings(past)' /\ AllLandings(future)'
      BY <1>4, <2>1 DEF Change, Unmarked, AllLandings, Landing, history
    <2>5. Landing(tx.content)' <=> Landing(tx.content)
      BY <2>1 DEF Landing
    <2> QED
      BY <2>1, <2>2, <2>3, <2>4, <2>5 DEF Landings
  <1>5. CASE Revert
    <2>1. /\ state' = "running" /\ tool' = tool
          /\ before \in rests /\ before' \in rests' /\ rests' = rests /\ tx' = tx
          /\ tool \notin Splitting => OneUndoStep(path')
          /\ ~Landing(db) => tool \notin Splitting /\ Settled(path', 1)
          /\ tx.open /\ ~Landing(tx.content) => Forgotten(path', 1)
          /\ AllLandings(past) /\ AllLandings(future)
      BY <1>5, LandingsStep DEF Revert
    <2>2. AllLandings(past)' /\ AllLandings(future)'
      BY <1>5, <2>1 DEF Revert, Unmarked, AllLandings, Landing
    <2>3. ~Landing(db)' => ~Landing(db)
      BY <1>5, <2>1 DEF Revert, Landing
    <2>4. Landing(tx.content)' <=> Landing(tx.content)
      BY <2>1 DEF Landing
    <2> QED
      BY <2>1, <2>2, <2>3, <2>4 DEF Landings
  <1>6. CASE Begin
    <2>1. /\ state = "running" /\ state' = "running" /\ path' = Tail(path) /\ tool' = tool
          /\ before' \in rests' /\ rests' = rests /\ tx'.content = db /\ db' = db
          /\ tool \notin Splitting => OneUndoStep(path')
          /\ ~Landing(db) => tool \notin Splitting /\ Settled(path', 1)
          /\ AllLandings(past) /\ AllLandings(future)
          /\ Head(path).op = "begin"
      BY <1>6, LandingsStep DEF Begin, Open
    <2>2. ~Landing(db) => Forgotten(path', 1)
      <3>1. path \in Paths /\ path # << >>
        BY <1>6, AtStep DEF Begin
      <3> QED
        BY <2>1, <3>1, OneUndoStepTail DEF Landings
    <2>3. AllLandings(past)' /\ AllLandings(future)' /\ (Landing(db)' <=> Landing(db))
          /\ (Landing(tx.content)' <=> Landing(db))
      BY <1>6, <2>1 DEF Begin, AllLandings, Landing, history
    <2> QED
      BY <2>1, <2>2, <2>3 DEF Landings
  <1>7. CASE End
    <2>1. /\ state = "running" /\ state' = "running" /\ path' = Tail(path) /\ tool' = tool
          /\ before' \in rests' /\ rests' = rests /\ db' = db /\ ~tx'.open
          /\ tool \notin Splitting => OneUndoStep(path')
          /\ ~Landing(db) => tool \notin Splitting /\ Settled(path', 1)
          /\ AllLandings(past) /\ AllLandings(future)
          /\ Head(path).op = "end" /\ tx.open /\ Commit
      BY <1>7, LandingsStep, NoTxType DEF End, Commit
    <2>2. Landing(db)' <=> Landing(db)
      BY <2>1 DEF Landing
    <2>3. (AllLandings(past)' /\ AllLandings(future)') \/ AboutToClear'
      <3>1. CASE db = tx.content
        BY <2>1, <3>1 DEF Commit, AllLandings, Landing, history
      <3>2. CASE db # tx.content /\ Landing(tx.content)
        <4>1. past' = Newest(Append(past, tx.content)) /\ future' = << >>
          BY <2>1, <3>2 DEF Commit
        <4>2. tx.content \in Contents
          BY DEF TypeOK, Transactions
        <4>3. AllLandings(past') /\ AllLandings(<< >>)
          BY <1>0, <2>1, <3>2, <4>1, <4>2, NewestLandings DEF AllLandings
        <4> QED
          BY <2>1, <4>1, <4>3 DEF AllLandings, Landing
      <3>3. CASE ~Landing(tx.content)
        <4>1. Forgotten(path, 1) /\ path \in Paths /\ path # << >>
          BY <1>7, <2>1, <3>3, AtStep DEF End, Landings
        <4> QED
          BY <2>1, <4>1, OneUndoStepTail DEF AboutToClear
      <3> QED
        BY <3>1, <3>2, <3>3
    <2> QED
      BY <2>1, <2>2, <2>3 DEF Landings
  <1>8. CASE Clear
    <2>1. /\ state' = "running" /\ tool' = tool
          /\ before' \in rests' /\ rests' = rests /\ tx' = tx /\ db' = db
          /\ tool \notin Splitting => OneUndoStep(path')
          /\ ~Landing(db) => tool \notin Splitting /\ Settled(path', 1)
          /\ tx.open /\ ~Landing(tx.content) => Forgotten(path', 1)
      BY <1>8, LandingsStep DEF Clear
    <2>2. AllLandings(past)' /\ AllLandings(future)' /\ (Landing(db)' <=> Landing(db))
          /\ (Landing(tx.content)' <=> Landing(tx.content))
      BY <1>8, <2>1 DEF Clear, AllLandings, Landing
    <2> QED
      BY <2>1, <2>2 DEF Landings
  <1>9. CASE Undo
    <2>1. /\ state = "running" /\ state' = "running" /\ tool' = tool
          /\ before' \in rests' /\ rests' = rests /\ ~tx'.open
          /\ tool \notin Splitting => OneUndoStep(path')
          /\ AllLandings(past) /\ AllLandings(future)
          /\ Head(path).op = "undo"
      BY <1>9, LandingsStep DEF Undo
    <2>2. Landing(db)
      BY <1>9, <2>1, AtStep, OneUndoStepTail DEF Undo, Landings
    <2>3. Landing(db') /\ AllLandings(past') /\ AllLandings(future')
      BY <1>0, <1>9, <2>1, <2>2, FrontLandings, PrependLandings DEF Undo
    <2>4. Landing(db)' /\ AllLandings(past)' /\ AllLandings(future)'
      BY <2>1, <2>3 DEF AllLandings, Landing
    <2> QED
      BY <2>1, <2>4 DEF Landings
  <1>10. CASE Redo
    <2>1. /\ state = "running" /\ state' = "running" /\ tool' = tool
          /\ before' \in rests' /\ rests' = rests /\ ~tx'.open
          /\ tool \notin Splitting => OneUndoStep(path')
          /\ AllLandings(past) /\ AllLandings(future)
          /\ Head(path).op = "redo"
      BY <1>10, LandingsStep DEF Redo
    <2>2. Landing(db)
      BY <1>10, <2>1, AtStep, OneUndoStepTail DEF Redo, Landings
    <2>3. Landing(db') /\ AllLandings(past') /\ AllLandings(future')
      BY <1>0, <1>10, <2>1, <2>2, TailLandings, NewestLandings DEF Redo
    <2>4. Landing(db)' /\ AllLandings(past)' /\ AllLandings(future)'
      BY <2>1, <2>3 DEF AllLandings, Landing
    <2> QED
      BY <2>1, <2>4 DEF Landings
  <1>11. CASE Raise
    <2>1. /\ state = "running" /\ state' = "failed" /\ before' \in rests' /\ rests' = rests
          /\ AllLandings(past) /\ AllLandings(future)
      BY <1>11, AtStep DEF Raise, At, Fallible, Landings, AboutToClear, call, ever
    <2>2. AllLandings(past)' /\ AllLandings(future)'
      BY <1>11, <2>1 DEF Raise, AllLandings, Landing, history
    <2> QED
      BY <2>1, <2>2 DEF Landings
  <1>12. CASE Terminate
    BY <1>12 DEF Terminate, Landings, call, ever
  <1>13. CASE Finish
    <2>1. /\ state' = "ok" /\ before' \in rests' /\ rests' = rests
          /\ AllLandings(past) /\ AllLandings(future)
      BY <1>13 DEF Finish, Landings, AboutToClear, call
    <2>2. AllLandings(past)' /\ AllLandings(future)'
      BY <1>13, <2>1 DEF Finish, AllLandings, Landing, history
    <2> QED
      BY <2>1, <2>2 DEF Landings
  <1>14. CASE Return
    <2>1. /\ state' = "idle" /\ db' \in rests' /\ rests \subseteq rests'
          /\ AllLandings(past) /\ AllLandings(future)
      BY <1>14 DEF Return, Landings, AboutToClear
    <2>2. AllLandings(past)' /\ AllLandings(future)'
      BY <1>14, <2>1 DEF Return, AllLandings, Landing, history
    <2> QED
      BY <2>1, <2>2 DEF Landings
  <1>15. CASE UNCHANGED vars
    BY <1>15 DEF vars, Landings, AllLandings, Landing, AboutToClear
  <1> QED
    BY <1>1, <1>2, <1>4, <1>5, <1>6, <1>7, <1>8, <1>9, <1>10, <1>11, <1>12, <1>13,
       <1>14, <1>15 DEF Next

\* "each mutating tool call is one undo step": for every table of tools that
\* begin no other undo step once they have changed the database, except one that
\* a clear of the history forgets, an undo or a redo returns to a content that
\* the database had between calls, or to one between the two transactions of a
\* tool that edits in two.
THEOREM UndoReturnsBetweenCalls == Spec => []UndoLandsBetweenCalls
  <1>1. Init => Landings
    <2>1. ASSUME Init PROVE AllLandings(past) /\ AllLandings(future)
      BY <2>1 DEF Init, AllLandings
    <2> QED
      BY <2>1 DEF Init, Landings
  <1>2. IInv /\ Landings /\ [Next]_vars => Landings'
    BY NextLandings
  <1>3. IInv /\ Landings => UndoLandsBetweenCalls
    <2> SUFFICES ASSUME IInv, Landings, state = "idle"
                 PROVE  \A c \in {past[i] : i \in DOMAIN past} \cup {future[i] : i \in DOMAIN future} :
                          c.split \/ c \in rests
      BY DEF UndoLandsBetweenCalls
    <2>1. DOMAIN past = 1 .. Len(past) /\ DOMAIN future = 1 .. Len(future)
      BY DEF IInv, TypeOK
    <2>2. AllLandings(past) /\ AllLandings(future)
      BY DEF Landings, AboutToClear
    <2> QED
      BY <2>1, <2>2 DEF AllLandings, Landing
  <1> QED
    BY <1>1, <1>2, <1>3, ToolCallsInvariant, PTL DEF Spec

-----------------------------------------------------------------------------
(* The refinement *)

\* The content of the abstract history.
Content == IF tx.open THEN tx.content ELSE db

\* A transaction that ends is an edit of the history, or nothing.
LEMMA CommitRefines ==
  ASSUME TypeOK, TypeOK', tx.open, Commit, db' = db
  PROVE  History!Do \/ UNCHANGED History!vars
  <1>1. Content = tx.content /\ Content' = db
    BY NoTxType DEF Content, Commit
  <1>2. CASE db = tx.content
    BY <1>1, <1>2 DEF Commit, history, History!vars, Content
  <1>3. CASE db # tx.content
    BY <1>1, <1>3 DEF Commit, TypeOK, History!Do, History!Newest, Newest, Content
  <1> QED
    BY <1>2, <1>3

\* Every step of a call is a step of the abstract history, or none.
LEMMA NextRefines ==
  ASSUME IInv, TypeOK', Bracketed', [Next]_vars
  PROVE  [History!Next]_(History!vars)
  <1> USE DEF IInv
  <1>1. ASSUME NEW t \in DOMAIN Tools[backend], NEW p \in Tools[backend][t].paths, Call(t, p)
        PROVE  History!Do \/ UNCHANGED History!vars
    <2>1. ~tx.open /\ tx' = tx /\ db' = db
      BY <1>1, NoTxType DEF Call, Bracketed
    <2>2. CASE UNCHANGED history
      BY <2>1, <2>2 DEF history, History!vars
    <2>3. CASE past' = Newest(Append(past, db)) /\ future' = << >>
      BY <2>1, <2>3 DEF History!Do, History!Newest, Newest, TypeOK
    <2> QED
      BY <1>1, <2>2, <2>3 DEF Call, UndoPoint
  <1>2. CASE Pass
    BY <1>2 DEF Pass, history, History!vars
  <1>4. CASE Change
    <2>1. CASE tx.open
      BY <1>4, <2>1 DEF Change, history, History!vars
    <2>2. CASE ~tx.open
      BY <1>4, <2>2 DEF Change, Unmarked, History!Next, History!Alter, TypeOK
    <2> QED
      BY <2>1, <2>2
  <1>5. CASE Revert
    <2>1. CASE tx.open
      BY <1>5, <2>1 DEF Revert, Unmarked, History!Next, History!Alter, TypeOK, Transactions
    <2>2. CASE ~tx.open
      BY <1>5, <2>2 DEF Revert, Unmarked, History!Next, History!Alter, TypeOK
    <2> QED
      BY <2>1, <2>2
  <1>6. CASE Begin
    BY <1>6 DEF Begin, Open, history, History!vars
  <1>7. CASE End
    BY <1>7, CommitRefines DEF End, History!Next
  <1>8. CASE Clear
    BY <1>8 DEF Clear, History!Next, History!Forget
  <1>9. CASE Undo
    BY <1>9 DEF Undo, History!Next, History!Undo
  <1>10. CASE Redo
    BY <1>10 DEF Redo, History!Next, History!Redo
  <1>11. CASE Raise
    BY <1>11, NoTxType DEF Raise, history, History!vars
  <1>12. CASE Terminate
    BY <1>12, CommitRefines DEF Terminate, history, History!vars, History!Next
  <1>13. CASE Finish
    BY <1>13 DEF Finish, history, History!vars
  <1>14. CASE Return
    BY <1>14 DEF Return, history, History!vars
  <1>15. CASE UNCHANGED vars
    BY <1>15 DEF vars, History!vars
  <1> QED
    BY <1>1, <1>2, <1>4, <1>5, <1>6, <1>7, <1>8, <1>9, <1>10, <1>11, <1>12, <1>13,
       <1>14, <1>15 DEF Next, History!Next

\* The calls of any tools implement the edit history.
THEOREM CallsImplementHistory == Spec => ImplementsHistory
  <1>1. Init => History!Init
    BY NoTxType DEF Init, History!Init, Contents, Original
  <1>2. IInv /\ IInv' /\ [Next]_vars => [History!Next]_(History!vars)
    BY NextRefines DEF IInv
  <1> QED
    BY <1>1, <1>2, ToolCallsInvariant, PTL DEF Spec, ImplementsHistory, History!Spec

-----------------------------------------------------------------------------
(* An undo takes back the whole call *)

\* The newest step of a history.
LEMMA NewestLast ==
  ASSUME NEW s \in Seq(Contents), NEW x \in Contents
  PROVE  LET h == Newest(Append(s, x)) IN h # << >> /\ h[Len(h)] = x
  <1> DEFINE a == Append(s, x)
  <1>1. a \in Seq(Contents) /\ Len(a) = Len(s) + 1 /\ Len(s) \in Nat /\ a[Len(a)] = x
    BY AppendToSeq
  <1>2. a # << >>
    BY <1>1
  <1>3. /\ Tail(a) \in Seq(Contents) /\ Len(Tail(a)) = Len(a) - 1
        /\ \A i \in 1 .. Len(Tail(a)) : Tail(a)[i] = a[i + 1]
    BY <1>1, <1>2, TailOfSeq
  <1> HIDE DEF a
  <1>4. CASE Len(a) > Limit
    <2>1. Len(Tail(a)) \in 1 .. Len(Tail(a)) /\ Len(Tail(a)) + 1 = Len(a)
      BY <1>1, <1>3, <1>4, BoundsAssumption
    <2>2. Tail(a)[Len(Tail(a))] = x /\ Tail(a) # << >>
      BY <1>1, <1>3, <2>1
    <2> QED
      BY <1>4, <2>2 DEF Newest, a
  <1>5. CASE ~(Len(a) > Limit)
    BY <1>1, <1>2, <1>5 DEF Newest, a
  <1> QED
    BY <1>4, <1>5

\* What is left of a path under an undo point.
LEMMA PlainTail ==
  ASSUME NEW p \in Paths, p # << >>, Plain(p)
  PROVE  Plain(Tail(p)) /\ Head(p).op \notin {"begin", "end", "clear", "undo", "redo"}
  <1>1. /\ Len(Tail(p)) = Len(p) - 1 /\ Len(p) \in Nat \ {0} /\ Head(p) = p[1]
        /\ \A i \in 1 .. Len(Tail(p)) : Tail(p)[i] = p[i + 1]
    BY TailOfSeq DEF Paths
  <1>2. 1 \in 1 .. Len(p) /\ \A i \in 1 .. Len(Tail(p)) : i + 1 \in 1 .. Len(p)
    BY <1>1
  <1> QED
    BY <1>1, <1>2 DEF Plain

\* An undo point that was taken stays the newest step while its call runs.
UndoPointKept ==
  pointed /\ state \in {"running", "ok", "failed"} =>
    /\ TakesBack
    /\ state = "running" => backend \notin Transactional /\ Plain(path)

LEMMA UndoPointStep ==
  ASSUME TypeOK, UndoPointKept, NEW ops, At(ops), Take,
         pointed => Head(path).op \in {"begin", "end", "clear", "undo", "redo"} \/ past' = past
  PROVE  UndoPointKept'
  <1>1. /\ state = "running" /\ state' = "running" /\ path' = Tail(path) /\ path \in Paths
        /\ path # << >> /\ before' = before /\ pointed' = pointed /\ backend' = backend
    BY AtStep DEF Take, call, ever
  <1> QED
    BY <1>1, PlainTail DEF UndoPointKept, TakesBack

LEMMA NextUndoPointKept ==
  ASSUME IInv, UndoPointKept, [Next]_vars
  PROVE  UndoPointKept'
  <1> USE DEF IInv
  <1>1. ASSUME NEW t \in DOMAIN Tools[backend], NEW p \in Tools[backend][t].paths, Call(t, p)
        PROVE  UndoPointKept'
    <2>1. ASSUME pointed'
          PROVE  /\ TakesPoint(t) /\ past' = Newest(Append(past, db)) /\ before' = db
                 /\ path' = p /\ backend' = backend
      BY <1>1, <2>1 DEF Call, UndoPoint
    <2>2. ASSUME pointed' PROVE TakesBack'
      BY <2>1, <2>2, NewestLast DEF TypeOK, TakesBack
    <2>3. ASSUME pointed' PROVE backend' \notin Transactional /\ Plain(path')
      BY <1>1, <2>1, <2>3, UndoPointAssumption DEF TakesPoint, TypeOK
    <2> QED
      BY <2>2, <2>3 DEF UndoPointKept
  <1>2. CASE Pass
    BY <1>2, UndoPointStep DEF Pass, history
  <1>3. CASE Change
    BY <1>3, UndoPointStep DEF Change, Unmarked, history
  <1>4. CASE Revert
    BY <1>4, UndoPointStep DEF Revert, Unmarked
  <1>5. CASE Begin
    BY <1>5, UndoPointStep DEF Begin, history
  <1>6. CASE End
    BY <1>6, UndoPointStep DEF End, At
  <1>7. CASE Clear
    BY <1>7, UndoPointStep DEF Clear, At
  <1>8. CASE Undo
    BY <1>8, UndoPointStep DEF Undo, At
  <1>9. CASE Redo
    BY <1>9, UndoPointStep DEF Redo, At
  <1>10. CASE Raise
    <2>1. state = "running"
      BY <1>10, AtStep DEF Raise
    <2> QED
      BY <1>10, <2>1 DEF Raise, UndoPointKept, TakesBack, history, call
  <1>11. CASE Terminate
    BY <1>11 DEF Terminate, UndoPointKept
  <1>12. CASE Finish
    BY <1>12 DEF Finish, UndoPointKept, TakesBack, history, call
  <1>13. CASE Return
    BY <1>13 DEF Return, UndoPointKept
  <1>14. CASE UNCHANGED vars
    BY <1>14 DEF vars, UndoPointKept, TakesBack
  <1> QED
    BY <1>1, <1>2, <1>3, <1>4, <1>5, <1>6, <1>7, <1>8, <1>9, <1>10, <1>11, <1>12, <1>13,
       <1>14 DEF Next

\* What is said of a path's steps from n + 1 on is said of its tail's from n on.
LEMMA DroppedTail ==
  ASSUME NEW p \in Paths, p # << >>, NEW n \in Nat \ {0}, Dropped(p, n + 1)
  PROVE  Dropped(Tail(p), n)
  <1>1. /\ Len(Tail(p)) = Len(p) - 1 /\ Len(p) \in Nat \ {0}
        /\ \A i \in 1 .. Len(Tail(p)) : Tail(p)[i] = p[i + 1]
    BY TailOfSeq DEF Paths
  <1>2. PICK k \in (n + 1) .. Len(p) :
          p[k].op = "clear" /\ \A l \in (n + 1) .. (k - 1) : p[l].op \notin Fallible
    BY DEF Dropped
  <1>3. k - 1 \in n .. Len(Tail(p)) /\ k - 1 \in 1 .. Len(Tail(p)) /\ (k - 1) + 1 = k
    BY <1>1, <1>2
  <1>4. Tail(p)[k - 1].op = "clear"
    BY <1>1, <1>2, <1>3
  <1>5. ASSUME NEW l \in n .. ((k - 1) - 1) PROVE Tail(p)[l].op \notin Fallible
    <2>1. l + 1 \in (n + 1) .. (k - 1) /\ l \in 1 .. Len(Tail(p))
      BY <1>1, <1>2, <1>5
    <2> QED
      BY <1>1, <1>2, <2>1
  <1> QED
    BY <1>3, <1>4, <1>5 DEF Dropped

HasClear(p) == \E i \in 1 .. Len(p) : p[i].op = "clear"

\* What a step leaves of a path that clears the history after an analysis.
LEMMA AnalysisDroppedTail ==
  ASSUME NEW p \in Paths, p # << >>
  PROVE  /\ AnalysisDropped(p) => AnalysisDropped(Tail(p))
         /\ AnalysisDropped(p) /\ Head(p).op \in Changing /\ Head(p).part = "analysis" =>
              Dropped(Tail(p), 1)
         /\ Dropped(p, 1) /\ Head(p).op # "clear" =>
              Dropped(Tail(p), 1) /\ Head(p).op \notin Fallible
         /\ Head(p).op = "clear" => Dropped(p, 1) /\ HasClear(p)
         /\ HasClear(Tail(p)) => HasClear(p)
  <1>1. /\ Len(Tail(p)) = Len(p) - 1 /\ Len(p) \in Nat \ {0} /\ Head(p) = p[1]
        /\ \A i \in 1 .. Len(Tail(p)) : Tail(p)[i] = p[i + 1]
    BY TailOfSeq DEF Paths
  <1>2. 1 \in 1 .. Len(p) /\ \A i \in 1 .. Len(Tail(p)) : i + 1 \in 1 .. Len(p)
    BY <1>1
  <1>3. ASSUME AnalysisDropped(p), NEW i \in 1 .. Len(Tail(p)),
               Tail(p)[i].op \in Changing, Tail(p)[i].part = "analysis"
        PROVE  Dropped(Tail(p), i + 1)
    <2>1. i + 1 \in 1 .. Len(p) /\ i + 1 \in Nat \ {0} /\ Tail(p)[i] = p[i + 1]
      BY <1>1, <1>2
    <2>2. Dropped(p, (i + 1) + 1)
      BY <1>3, <2>1 DEF AnalysisDropped
    <2> QED
      BY <2>1, <2>2, DroppedTail
  <1>4. ASSUME AnalysisDropped(p), Head(p).op \in Changing, Head(p).part = "analysis"
        PROVE  Dropped(Tail(p), 1)
    <2>1. Dropped(p, 1 + 1)
      BY <1>1, <1>2, <1>4 DEF AnalysisDropped
    <2> QED
      BY <2>1, DroppedTail
  <1>5. ASSUME Dropped(p, 1), Head(p).op # "clear"
        PROVE  Dropped(Tail(p), 1) /\ Head(p).op \notin Fallible
    <2>1. PICK k \in 1 .. Len(p) :
            p[k].op = "clear" /\ \A l \in 1 .. (k - 1) : p[l].op \notin Fallible
      BY <1>5 DEF Dropped
    <2>2. k # 1 /\ k \in (1 + 1) .. Len(p) /\ 1 \in 1 .. (k - 1)
      BY <1>1, <1>5, <2>1
    <2>3. \A l \in (1 + 1) .. (k - 1) : p[l].op \notin Fallible
      BY <2>1
    <2>4. Dropped(p, 1 + 1)
      BY <2>1, <2>2, <2>3 DEF Dropped
    <2> QED
      BY <1>1, <2>1, <2>2, <2>4, DroppedTail
  <1>6. Head(p).op = "clear" => Dropped(p, 1) /\ HasClear(p)
    <2>1. 1 .. (1 - 1) = {}
      OBVIOUS
    <2> QED
      BY <1>1, <1>2, <2>1 DEF Dropped, HasClear
  <1>7. HasClear(Tail(p)) => HasClear(p)
    BY <1>1, <1>2 DEF HasClear
  <1> QED
    BY <1>3, <1>4, <1>5, <1>6, <1>7 DEF AnalysisDropped

\* The calls that are one undo step, in a backend with transactions.
OneStep == backend \in Transactional /\ tool \notin Splitting
Kept == TakesBack \/ (past = << >> /\ Clears(tool))

\* In such a call what differs from its start is in the newest undo step, or the
\* history is dropped; a transaction that begins after a change is forgotten.
OneStepSoFar ==
  /\ OneUndoStep(path) /\ AnalysisDropped(path) /\ (HasClear(path) => Clears(tool))
  /\ changed # {} => Settled(path, 1)
  /\ changed = {} => path = << >> \/ db = before
  /\ tx.open => tx.changed \subseteq changed
  /\ tx.open /\ tx.content # before => Kept /\ Forgotten(path, 1)
  /\ ~tx.open /\ changed # {} /\ db # before => Kept \/ AboutToClear
  /\ "analysis" \in changed =>
       Dropped(path, 1) \/ (past = << >> /\ (tx.open => Forgotten(path, 1)))
OneStepDone ==
  changed # {} =>
    /\ db # before => Kept
    /\ "analysis" \in changed => past = << >>

Steps ==
  /\ state = "idle" => changed = {}
  /\ OneStep /\ state = "running" => OneStepSoFar
  /\ OneStep /\ state \in {"ok", "failed"} => OneStepDone

\* What a step leaves of it.
LEMMA StepsStep ==
  ASSUME IInv, Steps, NEW ops, At(ops), Take
  PROVE  /\ state = "running" /\ state' = "running" /\ path' = Tail(path)
         /\ path \in Paths /\ path # << >> /\ Head(path).op \in ops
         /\ before' = before /\ (OneStep' <=> OneStep) /\ (Clears(tool)' <=> Clears(tool))
         /\ OneStep =>
              /\ OneStepSoFar
              /\ OneUndoStep(path') /\ AnalysisDropped(path') /\ (HasClear(path') => Clears(tool))
              /\ changed # {} => Settled(path', 1)
              /\ changed = {} => db = before
  <1>1. state = "running" /\ path \in Paths /\ path # << >> /\ Head(path).op \in ops
    BY AtStep DEF At, IInv
  <1>2. /\ state' = "running" /\ path' = Tail(path) /\ before' = before
        /\ tool' = tool /\ backend' = backend
    BY <1>1 DEF Take, call, ever
  <1>3. (OneStep' <=> OneStep) /\ (Clears(tool)' <=> Clears(tool))
    BY <1>2 DEF OneStep, Clears
  <1>4. ASSUME OneStep
        PROVE  /\ OneStepSoFar
               /\ OneUndoStep(path') /\ AnalysisDropped(path') /\ (HasClear(path') => Clears(tool))
               /\ changed # {} => Settled(path', 1)
               /\ changed = {} => db = before
    <2>1. OneStepSoFar
      BY <1>1, <1>4 DEF Steps
    <2> QED
      BY <1>1, <1>2, <2>1, OneUndoStepTail, AnalysisDroppedTail DEF OneStepSoFar
  <1> QED
    BY <1>1, <1>2, <1>3, <1>4

LEMMA NextSteps ==
  ASSUME IInv, Steps, [Next]_vars
  PROVE  Steps'
  <1> USE DEF IInv
  <1>0. past \in Seq(Contents) /\ tx \in Transactions /\ db \in Contents
    BY DEF TypeOK
  <1>1. ASSUME NEW t \in DOMAIN Tools[backend], NEW p \in Tools[backend][t].paths, Call(t, p)
        PROVE  Steps'
    <2>1. /\ state' = "running" /\ path' = p /\ tool' = t /\ backend' = backend
          /\ db' = db /\ before' = db /\ changed' = {} /\ ~tx'.open
      BY <1>1 DEF Call, Steps, Bracketed
    <2>2. OneStep' => OneUndoStep(p) /\ AnalysisDropped(p)
      BY <1>1, <2>1, OneUndoStepAssumption, AnalysisAssumption DEF OneStep, TypeOK
    <2>3. HasClear(p) => Clears(tool)'
      BY <2>1 DEF HasClear, Clears
    <2>4. OneStep' => OneStepSoFar'
      BY <2>1, <2>2, <2>3 DEF OneStepSoFar, HasClear
    <2> QED
      BY <2>1, <2>4 DEF Steps
  <1>2. CASE Pass
    <2>1. /\ state' = "running" /\ path' = Tail(path) /\ path \in Paths /\ path # << >>
          /\ Head(path).op \notin {"end", "clear"}
          /\ before' = before /\ db' = db /\ past' = past /\ tx' = tx /\ changed' = changed
          /\ (OneStep' <=> OneStep) /\ (Clears(tool)' <=> Clears(tool))
      BY <1>2, StepsStep DEF Pass, At, history
    <2>2. ASSUME OneStep PROVE OneStepSoFar'
      <3>1. /\ OneStepSoFar /\ OneUndoStep(path') /\ AnalysisDropped(path')
            /\ (HasClear(path') => Clears(tool))
            /\ changed # {} => Settled(path', 1)
            /\ changed = {} => db = before
        BY <1>2, <2>2, StepsStep DEF Pass, At
      <3>2. ~AboutToClear /\ (Kept' <=> Kept)
        BY <2>1 DEF AboutToClear, Kept, TakesBack
      <3> QED
        BY <2>1, <3>1, <3>2, OneUndoStepTail, AnalysisDroppedTail DEF OneStepSoFar, HasClear
    <2> QED
      BY <2>1, <2>2 DEF Steps
  <1>3. CASE Change
    <2>1. /\ state' = "running" /\ path' = Tail(path) /\ path \in Paths /\ path # << >>
          /\ Head(path).op \in Changing /\ Head(path).op \notin {"end", "clear"}
          /\ before' = before /\ tx' = tx /\ changed' = changed \cup {Head(path).part}
          /\ (OneStep' <=> OneStep) /\ (Clears(tool)' <=> Clears(tool))
      BY <1>3, StepsStep DEF Change, Part, Changing
    <2>2. ASSUME OneStep PROVE OneStepSoFar'
      <3>1. /\ OneStepSoFar /\ OneUndoStep(path') /\ AnalysisDropped(path')
            /\ (HasClear(path') => Clears(tool))
        BY <1>3, <2>2, StepsStep DEF Change
      <3>2. tx.open /\ past' = past
        BY <1>3, <2>2 DEF Change, OneStep, history
      <3>3. Settled(path', 1) /\ (Kept' <=> Kept)
        BY <2>1, <3>1, <3>2, OneUndoStepTail DEF OneStepSoFar, Kept, TakesBack
      <3>4. tx.content # before => Kept /\ Forgotten(path', 1)
        BY <2>1, <3>1, <3>2, OneUndoStepTail DEF OneStepSoFar
      <3>5. ASSUME "analysis" \in changed'
            PROVE  Dropped(path', 1) \/ (past' = << >> /\ Forgotten(path', 1))
        BY <2>1, <3>1, <3>2, <3>5, OneUndoStepTail, AnalysisDroppedTail DEF OneStepSoFar
      <3> QED
        BY <2>1, <3>1, <3>2, <3>3, <3>4, <3>5 DEF OneStepSoFar, HasClear
    <2> QED
      BY <2>1, <2>2 DEF Steps
  <1>4. CASE Revert
    <2>1. /\ state' = "running" /\ ~OneStep'
      BY <1>4, StepsStep DEF Revert, OneStep
    <2> QED
      BY <2>1 DEF Steps
  <1>5. CASE Begin
    <2>1. /\ state' = "running" /\ path' = Tail(path) /\ path \in Paths /\ path # << >>
          /\ Head(path).op = "begin" /\ ~tx.open
          /\ before' = before /\ db' = db /\ past' = past /\ changed' = changed
          /\ tx' = Open(db, changed)
          /\ (OneStep' <=> OneStep) /\ (Clears(tool)' <=> Clears(tool))
      BY <1>5, StepsStep DEF Begin, history
    <2>2. ASSUME OneStep PROVE OneStepSoFar'
      <3>1. /\ OneStepSoFar /\ OneUndoStep(path') /\ AnalysisDropped(path')
            /\ (HasClear(path') => Clears(tool))
            /\ changed # {} => Settled(path', 1)
            /\ changed = {} => db = before
        BY <1>5, <2>2, StepsStep DEF Begin
      <3>2. tx'.open /\ tx'.content = db /\ tx'.changed = changed
        BY <2>1 DEF Open
      <3>3. ~AboutToClear /\ (Kept' <=> Kept)
        BY <2>1 DEF AboutToClear, Kept, TakesBack
      <3>4. changed # {} => Forgotten(path', 1)
        BY <2>1, <3>1, OneUndoStepTail DEF OneStepSoFar
      <3>5. db # before => Kept /\ Forgotten(path', 1)
        BY <2>1, <3>1, <3>3, <3>4 DEF OneStepSoFar
      <3>6. ASSUME "analysis" \in changed
            PROVE  Dropped(path', 1) \/ (past' = << >> /\ Forgotten(path', 1))
        BY <2>1, <3>1, <3>4, <3>6, AnalysisDroppedTail DEF OneStepSoFar
      <3> QED
        BY <2>1, <3>1, <3>2, <3>3, <3>5, <3>6 DEF OneStepSoFar, HasClear
    <2> QED
      BY <2>1, <2>2 DEF Steps
  <1>6. CASE End
    <2>1. /\ state' = "running" /\ path' = Tail(path) /\ path \in Paths /\ path # << >>
          /\ Head(path).op = "end" /\ tx.open /\ tx' = NoTx /\ ~tx'.open
          /\ before' = before /\ db' = db /\ changed' = changed
          /\ (OneStep' <=> OneStep) /\ (Clears(tool)' <=> Clears(tool))
      BY <1>6, StepsStep, NoTxType DEF End, Commit
    <2>2. ASSUME OneStep PROVE OneStepSoFar'
      <3>1. /\ OneStepSoFar /\ OneUndoStep(path') /\ AnalysisDropped(path')
            /\ (HasClear(path') => Clears(tool))
            /\ changed # {} => Settled(path', 1)
            /\ changed = {} => db = before
        BY <1>6, <2>2, StepsStep DEF End
      <3>2. Forgotten(path, 1) => AboutToClear' /\ Dropped(path', 1)
        <4>1. path' \in Paths
          BY <2>1, TailOfSeq DEF Paths
        <4>2. Forgotten(path, 1) => path' # << >> /\ Head(path').op = "clear"
          BY <2>1, OneUndoStepTail
        <4> QED
          BY <2>1, <4>1, <4>2, AnalysisDroppedTail DEF AboutToClear
      <3>3. ASSUME db # before PROVE Kept' \/ AboutToClear'
        <4>1. CASE tx.content # before
          BY <2>1, <3>1, <3>2, <4>1 DEF OneStepSoFar
        <4>2. CASE tx.content = before
          <5>1. past' = Newest(Append(past, before))
            BY <1>6, <3>3, <4>2 DEF End, Commit
          <5>2. before \in Contents
            BY DEF TypeOK
          <5>3. TakesBack'
            BY <1>0, <2>1, <5>1, <5>2, NewestLast DEF TakesBack
          <5> QED
            BY <5>3 DEF Kept
        <4> QED
          BY <4>1, <4>2
      <3>4. ASSUME "analysis" \in changed PROVE Dropped(path', 1)
        BY <2>1, <3>1, <3>2, <3>4, AnalysisDroppedTail DEF OneStepSoFar
      <3> QED
        BY <2>1, <3>1, <3>3, <3>4 DEF OneStepSoFar, HasClear
    <2> QED
      BY <2>1, <2>2 DEF Steps
  <1>7. CASE Clear
    <2>1. /\ state' = "running" /\ path' = Tail(path) /\ path \in Paths /\ path # << >>
          /\ Head(path).op = "clear" /\ tx' = tx
          /\ before' = before /\ db' = db /\ changed' = changed /\ past' = << >>
          /\ (OneStep' <=> OneStep) /\ (Clears(tool)' <=> Clears(tool))
      BY <1>7, StepsStep DEF Clear
    <2>2. ~tx.open
      <3>1. state = "running" /\ WellFormed(path)
        BY <1>7, StepsStep DEF Clear, Bracketed
      <3> QED
        BY <2>1, <3>1, WellFormedTail, EndAheadOfStep DEF Bracketed
    <2>3. ASSUME OneStep PROVE OneStepSoFar'
      <3>1. /\ OneStepSoFar /\ OneUndoStep(path') /\ AnalysisDropped(path')
            /\ (HasClear(path') => Clears(tool))
            /\ changed # {} => Settled(path', 1)
            /\ changed = {} => db = before
        BY <1>7, <2>3, StepsStep DEF Clear
      <3>2. Kept'
        BY <2>1, <3>1, AnalysisDroppedTail DEF OneStepSoFar, Kept
      <3> QED
        BY <2>1, <2>2, <3>1, <3>2 DEF OneStepSoFar, HasClear
    <2> QED
      BY <2>1, <2>3 DEF Steps
  <1>8. CASE Undo \/ Redo
    <2>1. /\ state' = "running" /\ path' = Tail(path) /\ path \in Paths /\ path # << >>
          /\ Head(path).op \in {"undo", "redo"} /\ ~tx.open /\ tx' = tx
          /\ changed' = changed /\ (OneStep' <=> OneStep)
      BY <1>8, StepsStep DEF Undo, Redo
    <2>2. path' = << >>
      BY <2>1, WellFormedTail, <1>8, StepsStep DEF Undo, Redo, Bracketed
    <2>3. ASSUME OneStep PROVE OneStepSoFar'
      <3>1. /\ OneStepSoFar /\ OneUndoStep(path') /\ AnalysisDropped(path')
            /\ (HasClear(path') => Clears(tool))
        BY <1>8, <2>3, StepsStep DEF Undo, Redo
      <3>2. changed = {}
        BY <2>1, <3>1, OneUndoStepTail DEF OneStepSoFar
      <3>3. ~HasClear(path')
        BY <2>2 DEF HasClear
      <3> QED
        BY <2>1, <2>2, <3>1, <3>2, <3>3 DEF OneStepSoFar
    <2> QED
      BY <2>1, <2>3 DEF Steps
  <1>9. CASE Raise
    <2>1. /\ state = "running" /\ state' = "failed" /\ path \in Paths /\ path # << >>
          /\ Head(path).op \in Fallible /\ Head(path).op # "clear"
          /\ before' = before /\ past' = past
          /\ (OneStep' <=> OneStep) /\ (Clears(tool)' <=> Clears(tool))
      BY <1>9, AtStep DEF Raise, At, Fallible, history, call, ever, OneStep, Clears
    <2>2. ASSUME OneStep PROVE OneStepDone'
      <3>1. OneStepSoFar /\ ~AboutToClear /\ (Kept' <=> Kept)
        BY <2>1, <2>2 DEF Steps, AboutToClear, Kept, TakesBack
      <3>2. "analysis" \in changed => past = << >>
        BY <2>1, <3>1, AnalysisDroppedTail DEF OneStepSoFar
      <3>3. changed' \subseteq changed
        BY <1>9, <3>1 DEF Raise, OneStepSoFar
      <3>4. changed' # {} /\ db' # before => Kept
        BY <1>9, <3>1, <3>3 DEF Raise, OneStepSoFar
      <3> QED
        BY <2>1, <3>1, <3>2, <3>3, <3>4 DEF OneStepDone
    <2> QED
      BY <2>1, <2>2 DEF Steps
  <1>10. CASE Terminate
    BY <1>10 DEF Terminate, Steps
  <1>11. CASE Finish
    <2>1. /\ state = "running" /\ state' = "ok" /\ path = << >>
          /\ before' = before /\ past' = past /\ db' = db /\ changed' = changed
          /\ (OneStep' <=> OneStep) /\ (Clears(tool)' <=> Clears(tool))
      BY <1>11 DEF Finish, history, call, OneStep, Clears
    <2>2. ASSUME OneStep PROVE OneStepDone'
      <3>1. OneStepSoFar /\ ~AboutToClear /\ (Kept' <=> Kept)
        BY <2>1, <2>2 DEF Steps, AboutToClear, Kept, TakesBack
      <3>2. ~EndAhead(path, 1) /\ ~Dropped(path, 1)
        <4>1. Len(path) = 0
          BY <2>1
        <4> QED
          BY <4>1 DEF EndAhead, Dropped
      <3>3. ~tx.open
        BY <2>1, <3>2 DEF Bracketed
      <3> QED
        BY <2>1, <3>1, <3>2, <3>3 DEF OneStepSoFar, OneStepDone
    <2> QED
      BY <2>1, <2>2 DEF Steps
  <1>12. CASE Return
    BY <1>12 DEF Return, Steps
  <1>13. CASE UNCHANGED vars
    BY <1>13 DEF vars, Steps, OneStep, OneStepSoFar, OneStepDone, Kept, TakesBack, Clears,
       AboutToClear, HasClear
  <1> QED
    BY <1>1, <1>2, <1>3, <1>4, <1>5, <1>6, <1>7, <1>8, <1>9, <1>10, <1>11, <1>12, <1>13
    DEF Next

\* "Each mutating tool call is exactly one undo step": for every table of tools
\* that begin no other undo step once they have changed the database, except one
\* that a clear forgets, that clear the history before anything can raise once
\* they let the engine analyze, and that leave the history alone under an undo
\* point, the undo that follows a call takes back that call whole.
THEOREM UndoTakesBackCalls == Spec => []UndoTakesBackTheCall
  <1>1. Init => UndoPointKept /\ Steps
    BY DEF Init, UndoPointKept, Steps
  <1>2. IInv /\ UndoPointKept /\ Steps /\ [Next]_vars => UndoPointKept' /\ Steps'
    BY NextUndoPointKept, NextSteps
  <1>3. UndoPointKept /\ Steps => UndoTakesBackTheCall
    BY DEF UndoPointKept, Steps, OneStep, OneStepDone, Kept, UndoTakesBackTheCall
  <1> QED
    BY <1>1, <1>2, <1>3, ToolCallsInvariant, PTL DEF Spec
=============================================================================
