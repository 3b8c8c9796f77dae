----------------------------- MODULE ToolCalls -----------------------------
(* Tool calls on the open database of one worker, one after another on its main
   thread.  A tool is a set of paths of steps (ToolSteps); this module is what
   the steps do to the database and to its undo history, in a backend with transactions (Ghidra) and in one with undo points (IDA).  A content of the database is named by the call that made it and by
   the number of transactions that call had committed before; split tells the
   contents of the tools that edit in more than one transaction. *)
EXTENDS Naturals, Sequences, FiniteSets

CONSTANTS
  Tools,          \* backend -> name -> what the tool does (ToolSteps)
  Parts,          \* the parts of a database
  Transactional,  \* the backends that edit in transactions
  Exempt,         \* UNDO_POINT_EXEMPT
  Splitting,      \* the tools that edit in two transactions
  Partial,        \* the tools that may raise after a commit
  Misreporting,   \* the tools that may deny an edit they have made
  Limit,          \* the most undo steps the engine keeps (Ghidra: 50)
  MaxCalls        \* bound: the calls of a behaviour

Backends == DOMAIN Tools
StepOps == {"check", "old", "now", "unsaved", "edit", "put", "revert", "raise", "begin",
            "end", "analysis", "clear", "canUndo", "canRedo", "undo", "redo", "save"}
Paths == Seq([op : StepOps, part : Parts])

ASSUME ToolsAssumption ==
  /\ Transactional \subseteq Backends
  /\ \A b \in Backends : \A t \in DOMAIN Tools[b] :
       /\ Tools[b][t].readOnly \in BOOLEAN
       /\ Tools[b][t].paths \subseteq Paths
\* From step n on, a transaction ends before one begins.
EndAhead(p, n) ==
  \E j \in n .. Len(p) : p[j].op = "end" /\ \A k \in n .. (j - 1) : p[k].op # "begin"
\* Transactions do not nest, end, and hold no clear of the history; a call that
\* travels in the history does nothing else afterwards.
WellFormed(p) ==
  \A i \in 1 .. Len(p) :
    /\ p[i].op = "begin" => EndAhead(p, i + 1)
    /\ p[i].op \in {"end", "clear"} => ~EndAhead(p, i + 1)
    /\ p[i].op \in {"undo", "redo"} => i = Len(p)
ASSUME PathsAssumption ==
  \A b \in Backends : \A t \in DOMAIN Tools[b] : \A p \in Tools[b][t].paths :
    WellFormed(p) /\ ~EndAhead(p, 1)

\* The steps that can raise, and the steps that change the database.
Fallible == {"check", "edit", "analysis", "raise", "canUndo", "canRedo", "undo", "redo", "save"}
Changing == {"edit", "put", "analysis"}

\* From step n on nothing can raise; a transaction that ends leaves nothing
\* that can.
Infallible(p, n) == \A k \in n .. Len(p) : p[k].op \notin Fallible
Sealed(p, n) == \A j \in n .. Len(p) : p[j].op = "end" => Infallible(p, j + 1)
\* Nothing can raise after a transaction that changed something, except in the
\* partial tools.
CommitsLast(p) == \A i \in 1 .. Len(p) : p[i].op \in Changing => Sealed(p, i + 1)
ASSUME CommitsLastAssumption ==
  \A b \in Transactional : \A t \in DOMAIN Tools[b] \ Partial :
    \A p \in Tools[b][t].paths : CommitsLast(p)

\* The end of the transaction that is open at step n is followed by a clear of
\* the history.
Forgotten(p, n) ==
  \E k \in n .. (Len(p) - 1) :
    /\ p[k].op = "end" /\ p[k + 1].op = "clear"
    /\ \A l \in n .. (k - 1) : p[l].op # "end"
\* From step n on no undo step begins that is kept.
Settled(p, n) ==
  \A j \in n .. Len(p) :
    /\ p[j].op \notin {"undo", "redo"}
    /\ p[j].op = "begin" => Forgotten(p, j + 1)
\* A tool that has changed the database begins no other undo step, except those
\* that edit in two transactions.
OneUndoStep(p) == \A i \in 1 .. Len(p) : p[i].op \in Changing => Settled(p, i + 1)
ASSUME OneUndoStepAssumption ==
  \A b \in Backends : \A t \in DOMAIN Tools[b] \ Splitting :
    \A p \in Tools[b][t].paths : OneUndoStep(p)

\* From step n on the history is cleared before anything can raise.
Dropped(p, n) ==
  \E k \in n .. Len(p) :
    p[k].op = "clear" /\ \A l \in n .. (k - 1) : p[l].op \notin Fallible
\* A tool that lets the engine analyze the database clears the history next.
AnalysisDropped(p) ==
  \A i \in 1 .. Len(p) : p[i].op \in Changing /\ p[i].part = "analysis" => Dropped(p, i + 1)
ASSUME AnalysisAssumption ==
  \A b \in Transactional : \A t \in DOMAIN Tools[b] \ Splitting :
    \A p \in Tools[b][t].paths : AnalysisDropped(p)

\* A tool that runs under an undo point bounds no transaction and leaves the
\* history alone.
Plain(p) == \A i \in 1 .. Len(p) : p[i].op \notin {"begin", "end", "clear", "undo", "redo"}
ASSUME UndoPointAssumption ==
  \A b \in Backends \ Transactional : \A t \in DOMAIN Tools[b] \ Exempt :
    ~Tools[b][t].readOnly => \A p \in Tools[b][t].paths : Plain(p)

\* A tool reads the old value of what it changes before the first change and the
\* new one after the last, and says that it left a part alone if it did.
Answers(p) ==
  \A i, j \in 1 .. Len(p) :
    /\ i < j /\ p[i].part = p[j].part
    /\ p[i].op \in Changing
    => p[j].op \notin {"old", "unsaved"}
AnswersLast(p) ==
  \A i, j \in 1 .. Len(p) :
    i < j /\ p[i].part = p[j].part /\ p[i].op = "now" => p[j].op \notin Changing
ASSUME ReadsAssumption ==
  \A b \in Backends : \A t \in DOMAIN Tools[b] \ Misreporting :
    \A p \in Tools[b][t].paths : Answers(p) /\ AnswersLast(p)

ASSUME BoundsAssumption == Limit \in Nat \ {0} /\ MaxCalls \in Nat

VARIABLES
  backend,
  db,       \* the content of the database
  past,     \* the contents that undo returns to, the next one last
  future,   \* the contents that redo returns to, the next one first
  calls,    \* how many calls were made
  rests,    \* the contents the database had between calls
  state,    \* "idle" between calls, "running", then "ok", "failed" or "terminated"
  tool, path,  \* the call's tool, and the steps it has left
  before,   \* the content at the start of the call
  changed,  \* the parts the call has changed
  commits,  \* the transactions it has committed with a change
  pointed,  \* TRUE if its undo point was taken
  tx        \* the open transaction: the content and the parts changed at its start

history == <<past, future>>
call == <<tool, before, pointed>>
ever == <<backend, calls, rests>>
vars == <<backend, db, past, future, calls, rests, state, tool, path, before,
          changed, commits, pointed, tx>>

Contents == [call : Nat, commit : Nat, split : BOOLEAN]
NoTool == ""
Transactions == [open : BOOLEAN, content : Contents, changed : SUBSET Parts]

Original == [call |-> 0, commit |-> 0, split |-> FALSE]
NoTx == [open |-> FALSE, content |-> Original, changed |-> {}]
Open(c, p) == [open |-> TRUE, content |-> c, changed |-> p]
Fresh == [call |-> calls, commit |-> commits, split |-> tool \in Splitting]

Init ==
  /\ backend \in Backends
  /\ db = Original /\ rests = {Original}
  /\ past = << >> /\ future = << >>
  /\ calls = 0
  /\ state = "idle" /\ tool = NoTool /\ path = << >> /\ before = Original
  /\ changed = {} /\ commits = 0 /\ pointed = FALSE
  /\ tx = NoTx

-----------------------------------------------------------------------------
(* The call's start *)

Newest(h) == IF Len(h) > Limit THEN Tail(h) ELSE h

\* _guard: a mutating tool of the backend without transactions takes an undo
\* point first, unless it is exempt.
TakesPoint(t) == /\ backend \notin Transactional
                 /\ ~Tools[backend][t].readOnly
                 /\ t \notin Exempt

\* _create_undo_point: the engine may refuse, and the tool runs all the same.
UndoPoint ==
  \/ pointed' = TRUE /\ past' = Newest(Append(past, db)) /\ future' = << >>
  \/ pointed' = FALSE /\ UNCHANGED history

Call(t, p) ==
  /\ state = "idle" /\ calls < MaxCalls
  /\ calls' = calls + 1
  /\ state' = "running" /\ tool' = t /\ path' = p /\ before' = db
  /\ IF TakesPoint(t) THEN UndoPoint ELSE pointed' = FALSE /\ UNCHANGED history
  /\ UNCHANGED <<backend, db, rests, changed, commits, tx>>

-----------------------------------------------------------------------------
(* The steps *)

\* The next step of the call is one of ops, and is taken.
At(ops) == state = "running" /\ path # << >> /\ Head(path).op \in ops
Part == Head(path).part
Take == path' = Tail(path) /\ UNCHANGED <<state, call, ever>>

\* Nothing of the database is changed: a test, a value for the answer.
Pass ==
  /\ At({"check", "old", "now", "unsaved", "save"}) \/ (At({"canUndo"}) /\ past # << >>) \/ (At({"canRedo"}) /\ future # << >>)
  /\ Take
  /\ UNCHANGED <<db, history, changed, commits, tx>>

\* Mutant of Unmarked: each edit of a call is an undo step of its own.
MarkEachEdit == past' = Newest(Append(past, db)) /\ future' = << >>

\* A change outside a transaction; the undo point before it, if there is one,
\* covers it.
Unmarked == future' = << >> /\ UNCHANGED past

\* The engine changes the database.
Change ==
  /\ At(Changing)
  /\ backend \in Transactional => tx.open
  /\ Take
  /\ db' = Fresh
  /\ changed' = changed \cup {Part}
  /\ IF tx.open THEN UNCHANGED history ELSE Unmarked
  /\ UNCHANGED <<commits, tx>>

\* The tool takes its change of the part back.
Revert ==
  /\ At({"revert"}) /\ backend \notin Transactional
  /\ Take
  /\ changed' = changed \ {Part}
  /\ db' = IF changed' = {} THEN before ELSE db
  /\ Unmarked
  /\ UNCHANGED <<commits, tx>>

Begin ==
  /\ At({"begin"}) /\ ~tx.open
  /\ Take
  /\ tx' = Open(db, changed)
  /\ UNCHANGED <<db, history, changed, commits>>

\* Mutant of Commit: a transaction that changed nothing stays open.
CommitChangesOnly ==
  IF db = tx.content
  THEN UNCHANGED <<history, commits, tx>>
  ELSE /\ tx' = NoTx
       /\ past' = Newest(Append(past, tx.content))
       /\ future' = << >>
       /\ commits' = commits + 1

\* Mutant of Commit: what was undone can still be redone.
CommitKeepsFuture ==
  /\ tx' = NoTx
  /\ IF db = tx.content
     THEN UNCHANGED <<history, commits>>
     ELSE /\ past' = Newest(Append(past, tx.content))
          /\ commits' = commits + 1
          /\ UNCHANGED future

\* endTransaction: one that changed something is an undo step.
Commit ==
  /\ tx' = NoTx
  /\ IF db = tx.content
     THEN UNCHANGED <<history, commits>>
     ELSE /\ past' = Newest(Append(past, tx.content))
          /\ future' = << >>
          /\ commits' = commits + 1

End ==
  /\ At({"end"}) /\ tx.open
  /\ Take
  /\ Commit
  /\ UNCHANGED <<db, changed>>

\* Mutant of Clear: only what was undone is dropped.
ClearKeepsPast ==
  /\ At({"clear"})
  /\ Take
  /\ future' = << >>
  /\ UNCHANGED <<db, past, changed, commits, tx>>

\* clearUndo
Clear ==
  /\ At({"clear"})
  /\ Take
  /\ past' = << >> /\ future' = << >>
  /\ UNCHANGED <<db, changed, commits, tx>>

\* Not inside a transaction: Ghidra refuses it.
Undo ==
  /\ At({"undo"}) /\ ~tx.open /\ past # << >>
  /\ Take
  /\ db' = past[Len(past)]
  /\ past' = SubSeq(past, 1, Len(past) - 1)
  /\ future' = <<db>> \o future
  /\ UNCHANGED <<changed, commits, tx>>

Redo ==
  /\ At({"redo"}) /\ ~tx.open /\ future # << >>
  /\ Take
  /\ db' = Head(future)
  /\ future' = Tail(future)
  /\ past' = Append(past, db)
  /\ UNCHANGED <<changed, commits, tx>>

-----------------------------------------------------------------------------
(* The call's end *)

\* Mutant of Raise: the transaction commits what the tool had done so far.
RaiseCommits ==
  /\ At(Fallible)
  /\ state' = "failed" /\ path' = << >>
  /\ IF tx.open THEN Commit ELSE UNCHANGED <<history, commits, tx>>
  /\ UNCHANGED <<db, changed, call, ever>>

\* An exception leaves the tool.  transaction ends an open transaction without
\* a commit, and without transactions the edits stay.
Raise ==
  /\ At(Fallible)
  /\ state' = "failed" /\ path' = << >>
  /\ IF tx.open THEN db' = tx.content /\ changed' = tx.changed ELSE UNCHANGED <<db, changed>>
  /\ tx' = NoTx
  /\ UNCHANGED <<history, commits, call, ever>>

\* SIGTERM: SystemExit is no Exception, so that transaction commits what there
\* is.
Terminate ==
  /\ state = "running"
  /\ state' = "terminated" /\ path' = << >>
  /\ IF tx.open THEN Commit ELSE UNCHANGED <<history, commits, tx>>
  /\ UNCHANGED <<db, changed, call, ever>>

Finish ==
  /\ state = "running" /\ path = << >>
  /\ state' = "ok"
  /\ UNCHANGED <<backend, db, history, calls, rests, call, path, changed, commits, tx>>

\* The answer is on its way, and the next call may start.
Return ==
  /\ state \in {"ok", "failed"}
  /\ state' = "idle" /\ tool' = NoTool /\ before' = Original
  /\ changed' = {} /\ commits' = 0 /\ pointed' = FALSE
  /\ rests' = rests \cup {db}
  /\ UNCHANGED <<backend, db, history, calls, path, tx>>

Next ==
  \/ \E t \in DOMAIN Tools[backend] : \E p \in Tools[backend][t].paths : Call(t, p)
  \/ Pass \/ Change \/ Revert \/ Begin \/ End \/ Clear \/ Undo \/ Redo
  \/ Raise \/ Terminate \/ Finish \/ Return

Spec == Init /\ [][Next]_vars

-----------------------------------------------------------------------------
(* Properties *)

\* Every variable keeps its type.
TypeOK ==
  /\ backend \in Backends /\ calls \in Nat
  /\ db \in Contents /\ before \in Contents /\ rests \subseteq Contents
  /\ past \in Seq(Contents) /\ future \in Seq(Contents)
  /\ state \in {"idle", "running", "ok", "failed", "terminated"}
  /\ tool \in DOMAIN Tools[backend] \cup {NoTool}
  /\ path \in Paths
  /\ changed \subseteq Parts
  /\ commits \in Nat /\ pointed \in BOOLEAN
  /\ tx \in Transactions

\* What a failed call of a backend with transactions leaves was committed by it,
\* and so is an undo step.
WhatStaysWasCommitted ==
  state = "failed" /\ backend \in Transactional => db = before \/ commits > 0

\* "a failed tool leaves nothing behind" (transaction): a Ghidra tool that fails
\* leaves the content it found, and no undo step.  Only a partial tool, which
\* can raise after a transaction it has committed, leaves that.
FailedCallLeavesNothing ==
  /\ WhatStaysWasCommitted
  /\ state = "failed" /\ backend \in Transactional /\ tool \notin Partial
       => commits = 0

\* Each mutating call is one undo step: what undo and redo return to is a
\* content that the database had between two calls, never one in the middle of
\* a call, however calls, failures, analysis passes, undos and redos follow
\* each other.
UndoLandsBetweenCalls ==
  state = "idle" =>
    \A c \in {past[i] : i \in DOMAIN past} \cup {future[i] : i \in DOMAIN future} :
      c.split \/ c \in rests

\* A tool that drops the history on one of its paths.
Clears(t) ==
  \E p \in Tools[backend][t].paths : \E i \in 1 .. Len(p) : p[i].op = "clear"

\* An undo goes back to the content of before the call.
TakesBack == past # << >> /\ past[Len(past)] = before

\* "Each mutating tool call is exactly one undo step", and "analysis is never an
\* undo step": once a call has ended well or badly, whatever part of its edits
\* it made, the next undo takes back the whole call and nothing before it, and
\* of a call that let the engine analyze nothing is left to be undone.  Only the
\* splitting tools, and an IDA call whose undo point was refused or that takes
\* none, leave something else.
UndoTakesBackTheCall ==
  state \in {"ok", "failed"} =>
    /\ pointed => TakesBack
    /\ backend \in Transactional /\ tool \notin Splitting /\ changed # {} =>
         /\ db # before => TakesBack \/ (past = << >> /\ Clears(tool))
         /\ "analysis" \in changed => past = << >>

\* Undo and redo together never keep more than the engine's limit.
HistoryBounded == Len(past) + Len(future) <= Limit

\* No transaction outlives its call (Session._tx_state: "anything else means a
\* transaction leaked").
NoTransactionLeaks == state # "running" => ~tx.open

\* The part of the inductive invariant that a reader needs: however calls end,
\* by a return, an error or SIGTERM, the types, the history's limit and the
\* transactions hold.
CallsInv == TypeOK /\ HistoryBounded /\ NoTransactionLeaks

\* The edit history as the undo and redo tools describe it.  A transaction that
\* is open has not happened yet.
History == INSTANCE EditHistory
             WITH content <- IF tx.open THEN tx.content ELSE db

ImplementsHistory == History!Spec
=============================================================================
