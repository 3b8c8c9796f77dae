---------------------------- MODULE WorkerLease ----------------------------
(***************************************************************************)
(* What a session may rely on when it is given a worker.  A worker is      *)
(* listed from its creation until something withdraws it, for good; a      *)
(* session can take hold of it only while it is listed and has not closed; *)
(* its life runs one way.  One step of the pool may move several workers   *)
(* (a detach takes a session off all of them), so a step is a conjunction  *)
(* of one lease step per worker.                                           *)
(***************************************************************************)
CONSTANTS Workers, Sessions

VARIABLES life,     \* "none", "opening", "open" or "closed"
          listed,   \* can a client still find it?
          holders   \* the sessions that hold it

leaseVars == <<life, listed, holders>>

Init ==
  /\ life = [w \in Workers |-> "none"]
  /\ listed = [w \in Workers |-> FALSE]
  /\ holders = [w \in Workers |-> {}]

\* Where a life may go in one step.
Onward(l) ==
  CASE l = "opening" -> {"opening", "open", "closed"}
    [] l = "open" -> {"open", "closed"}
    [] OTHER -> {l}

Create(w) ==
  /\ life[w] = "none" /\ life'[w] = "opening"
  /\ listed'[w]
  /\ \E s \in Sessions : holders'[w] = {s}

Grant(w) ==
  /\ life[w] \in {"opening", "open"} /\ life'[w] = life[w]
  /\ listed[w] /\ listed'[w]
  /\ \E s \in Sessions : holders'[w] = holders[w] \cup {s}

\* Sessions let go, the worker opens or closes, or is withdrawn from the list.
Progress(w) ==
  /\ life'[w] \in Onward(life[w])
  /\ listed'[w] => listed[w]
  /\ holders'[w] \subseteq holders[w]

Next == \A w \in Workers : Create(w) \/ Grant(w) \/ Progress(w)

Spec == Init /\ [][Next]_leaseVars
=============================================================================
