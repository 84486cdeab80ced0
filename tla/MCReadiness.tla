---------------------------- MODULE MCReadiness -----------------------------
(* Instances of Readiness for TLC. *)
EXTENDS Readiness, TLC

CONSTANTS w1, w2

MCWorkers == {w1, w2}
=============================================================================
