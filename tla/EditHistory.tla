---------------------------- MODULE EditHistory ----------------------------
(* What the undo and redo tools promise of a database.  Its contents lie on a
   line: the contents an undo returns to, the one it has, the ones a redo
   returns to.  An edit puts a new content in front and cuts the rest of the
   line off; undo and redo only move along it.  What no undo step covers
   (an analysis pass, a refused undo point) changes the content in its place. *)
EXTENDS Naturals, Sequences

CONSTANTS
  Contents,  \* what a database can hold
  Limit      \* the most undo steps an engine keeps

VARIABLES content, past, future

vars == <<content, past, future>>

Init == content \in Contents /\ past = << >> /\ future = << >>

\* The newest Limit steps of h.
Newest(h) == IF Len(h) > Limit THEN Tail(h) ELSE h

Do == /\ content' \in Contents
      /\ past' = Newest(Append(past, content))
      /\ future' = << >>

\* An edit that is no undo step: what was undone before it is gone.
Alter == /\ content' \in Contents
         /\ future' = << >>
         /\ UNCHANGED past

Undo == /\ past # << >>
        /\ content' = past[Len(past)]
        /\ past' = SubSeq(past, 1, Len(past) - 1)
        /\ future' = <<content>> \o future

Redo == /\ future # << >>
        /\ content' = Head(future)
        /\ future' = Tail(future)
        /\ past' = Append(past, content)

Forget == past' = << >> /\ future' = << >> /\ UNCHANGED content

Next == Do \/ Alter \/ Undo \/ Redo \/ Forget

Spec == Init /\ [][Next]_vars
=============================================================================
