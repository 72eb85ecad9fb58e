------------------------------ MODULE MCSessions ------------------------------
(* Instances of Sessions for TLC. *)
EXTENDS Sessions, TLC
CONSTANTS su, w1, w2

\* A window as long as the cap, and one of half its length.
Lax == "slide" :> 2 @@ "cap" :> 2 @@ "concurrent" :> 1 @@ "stale" :> 1
Strict == "slide" :> 1 @@ "cap" :> 2 @@ "concurrent" :> 1 @@ "stale" :> 1
TwoPolicies == {Lax, Strict}
\* Idle threads hold nothing, so it makes no difference which of them Decide takes.
ThreadSymmetry == Permutations(Threads)
\* Accounts are suspended or demoted under the one policy; the other meets those in order.
InOrder(a) == a = [active |-> TRUE, role |-> "super_user"]
Parts == \A u \in Users :
  \/ InOrder(account[u])
  \/ policy = Lax /\ (account[u].active \/ account[u].role = "super_user")
===============================================================================
