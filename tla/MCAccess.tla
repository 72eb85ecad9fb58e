------------------------------- MODULE MCAccess -------------------------------
(* Instances of Access and its views for TLC. *)
EXTENDS AccessViews, TLC
CONSTANTS u1, u2, a1, m1, m2, m3, t1, t2, w1, w2
Symmetry == Permutations(Users) \cup Permutations(Rows) \cup Permutations(Tokens)
              \cup Permutations(Workers)
==============================================================================
