---------------------------- MODULE MCPlanning ----------------------------
(* Instances of Planning for TLC. *)
EXTENDS Planning, TLC
CONSTANTS p1, p2, p3, m1, f1, t1, t2, u1, w1, w2
Symmetry == Permutations(Workers) \cup Permutations({p2, p3}) \cup Permutations(Tasks)
\* One project has a history, the others are there to be pinned and linked to.
Feeds == [p \in Projects |-> IF p = p1 THEN 4 ELSE 0]
Parts == {{"rename", "complete", "archive", "reopen"}, {"task", "complete", "archive"},
          {"milestone", "phase", "task", "close", "complete"}, {"pin"}}
=============================================================================
