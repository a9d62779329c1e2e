----------------------------- MODULE MCReadiness -----------------------------
(* Small instances of Readiness for TLC. *)
EXTENDS Readiness, TLC

CONSTANTS probe, other, worker

Symmetric == Permutations(Probes)
=============================================================================
