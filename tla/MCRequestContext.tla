-------------------------- MODULE MCRequestContext --------------------------
(* Small instances of RequestContext for TLC. *)
EXTENDS RequestContext, TLC

CONSTANTS s, t, site, lab, demo

Symmetric == Permutations(Threads)

(* Constraints: the code of an application logs once (what the invariants  *)
(* say of its records they say of each alone); and the third application   *)
(* is created after the others, while there is at most one request.        *)
OneOfTheApplication == Cardinality({r \in records : r.event = "application"}) <= 1

DemoIsLast ==
    step[demo] # "none" => step[site] = "done" /\ step[lab] = "done" /\ issued <= 1
=============================================================================
