----------------------------- MODULE AtomicUnits -----------------------------
(***************************************************************************)
(* What the UnitOfWork port promises a use case, with no session, no       *)
(* connection and no transaction: at a boundary everything the use case    *)
(* staged becomes durable, or nothing does and the unit can only discard   *)
(* or raise (application/ports/unit_of_work.py) - unless a call told the   *)
(* use case of an error, and it went on to the boundary all the same.      *)
(***************************************************************************)
EXTENDS Integers

CONSTANTS Units, Rows

VARIABLES
    committed,  \* the <<unit, row>> pairs that are durable
    staged,     \* what each unit's use case staged since its last boundary
    promised,   \* what boundaries told the use case is kept
    doubtful,   \* those of them promised to a unit that had been warned
    warned,     \* units told of an error since their last boundary or discard
    phase       \* where each unit is

vars == <<committed, staged, promised, doubtful, warned, phase>>

Init ==
    /\ committed = {}
    /\ staged = [u \in Units |-> {}]
    /\ promised = [u \in Units |-> {}]
    /\ doubtful = [u \in Units |-> {}]
    /\ warned = {}
    /\ phase = [u \in Units |-> "new"]

Begin(u) ==
    /\ phase[u] = "new"
    /\ phase' = [phase EXCEPT ![u] = "open"]
    /\ UNCHANGED <<committed, staged, promised, doubtful, warned>>

(* A unit that has lost its work may not know it yet.                      *)
Stage(u, r) ==
    /\ phase[u] \in {"open", "lost"}
    /\ staged' = [staged EXCEPT ![u] = @ \cup {r}]
    /\ UNCHANGED <<committed, promised, doubtful, warned, phase>>

(* The unit is told that what it staged is kept.                           *)
Hold(u) ==
    /\ promised' = [promised EXCEPT ![u] = @ \cup staged[u]]
    /\ doubtful' = [doubtful EXCEPT ![u] =
                       IF u \in warned THEN @ \cup staged[u] ELSE @]
    /\ staged' = [staged EXCEPT ![u] = {}]
    /\ warned' = warned \ {u}
    /\ \/ phase' = [phase EXCEPT ![u] = "open"]
       \/ phase' = [phase EXCEPT ![u] = "returned"]

Publish(u) ==
    /\ phase[u] = "open"
    /\ committed' = committed \cup ({u} \X staged[u])
    /\ Hold(u)

(* The work is lost and the boundary does not say so: only to a unit that  *)
(* has been told of an error before.                                       *)
Pretend(u) ==
    /\ phase[u] = "lost"
    /\ u \in warned
    /\ Hold(u)
    /\ UNCHANGED committed

(* The work is kept and the unit is not told: to it, it is lost.           *)
PublishUntold(u) ==
    /\ phase[u] = "open"
    /\ committed' = committed \cup ({u} \X staged[u])
    /\ phase' = [phase EXCEPT ![u] = "lost"]
    /\ UNCHANGED <<staged, promised, doubtful, warned>>

(* Failures beyond a unit's control can strike several units at once.      *)
Lose(S) ==
    /\ \A u \in S : phase[u] = "open"
    /\ phase' = [u \in Units |-> IF u \in S THEN "lost" ELSE phase[u]]
    /\ UNCHANGED <<committed, staged, promised, doubtful, warned>>

(* A call fails, with or without the unit's work, and the unit goes on.    *)
Warn(u) ==
    /\ phase[u] \in {"open", "lost"}
    /\ warned' = warned \cup {u}
    /\ UNCHANGED phase \/ phase' = [phase EXCEPT ![u] = "lost"]
    /\ UNCHANGED <<committed, staged, promised, doubtful>>

Discard(u) ==
    /\ phase[u] \in {"open", "lost"}
    /\ staged' = [staged EXCEPT ![u] = {}]
    /\ warned' = warned \ {u}
    /\ phase' = [phase EXCEPT ![u] = "open"]
    /\ UNCHANGED <<committed, promised, doubtful>>

Raise(u) ==
    /\ phase[u] \in {"open", "lost"}
    /\ phase' = [phase EXCEPT ![u] = "raised"]
    /\ UNCHANGED <<committed, staged, promised, doubtful, warned>>

Killed ==
    /\ phase' = [u \in Units |->
                    IF phase[u] \in {"open", "lost"} THEN "killed" ELSE phase[u]]
    /\ UNCHANGED <<committed, staged, promised, doubtful, warned>>

Next ==
    \/ \E u \in Units : \/ Begin(u)
                        \/ \E r \in Rows : Stage(u, r)
                        \/ Publish(u) \/ PublishUntold(u) \/ Pretend(u)
                        \/ Warn(u) \/ Discard(u) \/ Raise(u)
    \/ \E S \in SUBSET Units : Lose(S)
    \/ Killed

Spec == Init /\ [][Next]_vars
=============================================================================
