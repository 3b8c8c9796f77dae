----------------------------- MODULE ToolSteps -----------------------------
(* The vocabulary in which the tools of both backends are described.  What a
   tool does to the database is the set of the paths its code can take, and a
   path is the sequence of the steps that matter to a database, its undo
   history and the answer: a test that may raise, a value read for the answer,
   an edit, the bounds of a transaction.  What a step touches is named by the
   part of the database, never by its contents. *)
EXTENDS Sequences, FiniteSets

\* A step: the operation, and the part of the database it is about.
Step(op, part) == { << [op |-> op, part |-> part] >> }

\* The parts of a database that the tools tell apart.
DatabaseParts ==
  {"", "analysis", "base", "bookmarks", "bytes", "code", "colors", "comments",
   "data", "entries", "flags", "folders", "functions", "lines", "names",
   "operands", "permissions", "plan", "ranges", "registers", "script",
   "segments", "signatures", "stack", "strings", "tags", "types", "variables",
   "xrefs"}

Nothing == { << >> }
p ++ q == { a \o b : a \in p, b \in q }
p | q == p \cup q
Maybe(p) == Nothing | p
\* A loop: no round, one, or two.
Some(p) == Nothing | p | (p ++ p)

\* Arguments or the database are tested; the tool raises if they do not do.
Check == Step("check", "")
\* The answer takes the part for what it was before the call, and after it.
Old(part) == Step("old", part)
Now(part) == Step("now", part)
\* The answer says that the call leaves the part as it was.
Unsaved(part) == Step("unsaved", part)
\* The engine changes the part, or it refuses and the tool raises.
Edit(part) == Step("edit", part)
\* The engine changes the part, and has no way to refuse.
Put(part) == Step("put", part)
\* The tool takes its own change of the part back.
Revert(part) == Step("revert", part)

\* The tool raises here, whatever it did before.
Raise == Step("raise", "")

Begin == Step("begin", "")
End == Step("end", "")
InTransaction(p) == Begin ++ p ++ End

\* A pass of the engine's own analysis over the database.
Analysis == Step("analysis", "analysis")
ClearHistory == Step("clear", "")
CanUndo == Step("canUndo", "")
CanRedo == Step("canRedo", "")
PerformUndo == Step("undo", "")
PerformRedo == Step("redo", "")
\* The database is written to its file.
Save == Step("save", "")

Mutate(p) == [readOnly |-> FALSE, paths |-> p]
ReadOnly(p) == [readOnly |-> TRUE, paths |-> p]
=============================================================================
