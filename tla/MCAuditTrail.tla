---------------------------- MODULE MCAuditTrail ----------------------------
(* A small instance of AuditTrail for TLC. *)
EXTENDS AuditTrail, TLC

CONSTANTS one, two, first, second

Symmetric == Permutations(Rows) \cup Permutations(Events)

(* Bound: nested blocks are explored with events that record_audit_event  *)
(* made, from contexts nobody has altered.                                 *)
NestedAreUnaltered ==
    nested => bare = {} /\ \A h \in Holders : content[h] = "fine"
=============================================================================
