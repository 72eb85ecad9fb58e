------------------------------ MODULE MCHealth ------------------------------
(* Instances of Health for TLC. *)
EXTENDS Health

\* Of three rows the last edge falls, of four an inner one, of five none.
SomeFall == {<<3, 2>>, <<4, 1>>}
=============================================================================
