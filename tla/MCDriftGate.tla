----------------------------- MODULE MCDriftGate -----------------------------
(* Instances of DriftGate for TLC. *)
EXTENDS DriftGate, TLC
CONSTANTS a1, t1, x1, r1, r2,
  OverlapWindow  \* bound: the window under which two requests overlap
(* The attempt log and the streak are written and never read by the gate:
   runs whose properties do not read them either leave them out of the
   fingerprint. *)
GateView == <<clock, settings, row, escalations, req, clearing, lastPass>>
(* One request at a time runs under every window. *)
Overlaps == Cardinality({r \in Requests : req[r].pc # "idle"}) > 1 => window = OverlapWindow
Symmetry == Permutations(Requests)
=============================================================================
