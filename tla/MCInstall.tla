----------------------------- MODULE MCInstall -----------------------------
(* Instances of Install for TLC. *)
EXTENDS Install, TLC
CONSTANTS r1, r2, s1, i1, i2, e1, e2, e3
Symmetric == Permutations({i1, i2}) \cup Permutations({e1, e2, e3})
=============================================================================
