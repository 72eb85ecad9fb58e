---------------------------- MODULE MCOnboarding ----------------------------
(* Instances of Onboarding for TLC. *)
EXTENDS Onboarding
CONSTANTS x1, x2, k1, k2, k3, k4, w1, w2
=============================================================================
