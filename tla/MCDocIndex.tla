----------------------------- MODULE MCDocIndex -----------------------------
(* Instances of DocIndex for TLC. *)
EXTENDS DocIndex
CONSTANTS d1, d2, p1, s1, x1, x2, amiss
=============================================================================
