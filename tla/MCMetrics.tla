----------------------------- MODULE MCMetrics -----------------------------
(* Metrics on a small instance: two that get and one more for Stats or reset. *)
EXTENDS Metrics, TLC

CONSTANTS p1, p2, p3

MCCaller == {p1, p2, p3}
MCSymmetry == Permutations(MCCaller)
=============================================================================
