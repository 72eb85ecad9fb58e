----------------------------- MODULE MCTaskBoard -----------------------------
(***************************************************************************)
(* Instances of TaskBoard and its views for TLC.  A run has two parts that *)
(* begin in the same state: the life of one ticket with its notes and its  *)
(* project, and the graph of all tickets of an active project, which only  *)
(* humans edit and which close by "cancelled" alone.                       *)
(***************************************************************************)
EXTENDS BoardViews, TLC
CONSTANTS
  t1, t2, t3, n1, n2, w1, w2,
  LifeGoals, GraphGoals  \* the statuses asked for in each part

Symmetry == Permutations(Tasks) \cup Permutations(Notes) \cup Permutations(Workers)

Asks(goals, actors) ==
  /\ \A t \in Tasks : status[t] \in goals \cup {None}
  /\ \A w \in Workers : req[w].op \in {"patch", "create"} =>
       req[w].to \in goals \cup {Keep} /\ req[w].actor \in actors

Life ==
  /\ Asks(LifeGoals, Actors)
  /\ Cardinality({t \in Tasks : Exists(t)}) <= 1
  /\ \A w \in Workers : Holds(w, "create") => \A t \in Tasks : ~Exists(t)

Graph ==
  /\ Asks(GraphGoals, {"human"})
  /\ \A n \in Notes : notes[n].state = "unborn"
  /\ \A w \in Workers : req[w].op \notin {"note", "complete", "archive"}
  /\ project = [status |-> "active", reason |-> None]
  /\ \A t \in Tasks : "done" \notin closers[t]

Parts == Life \/ Graph
=============================================================================
