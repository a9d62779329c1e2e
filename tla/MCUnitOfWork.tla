---------------------------- MODULE MCUnitOfWork ----------------------------
(* Small instances of UnitOfWork for TLC. *)
EXTENDS UnitOfWork, TLC

CONSTANTS u1, u2, book

Symmetric == Permutations(Units) \cup Permutations(Actions)
NothingRejected == {}
AuditTooLong == {<<u2, <<"audit", book>>>>}

(* An outage does not end, and nothing is killed.                           *)
GrimSpec ==
    /\ Init
    /\ [][Next /\ ~Recover /\ ~Kill /\ ~\E s \in Slots : Drop(s)]_vars
    /\ Fairness
=============================================================================
