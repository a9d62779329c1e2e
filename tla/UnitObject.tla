----------------------------- MODULE UnitObject -----------------------------
(***************************************************************************)
(* One SqlAlchemyUnitOfWork object and the with blocks a caller opens on   *)
(* it: one after another, or one inside another.  UnitOfWork enters each   *)
(* object once; here the question is what self._session stands for when it *)
(* is None or overwritten.  AuditTrail puts the steps together.            *)
(***************************************************************************)
EXTENDS Naturals

CONSTANTS
    Rows,           \* what may be written
    MaxDepth,       \* bound: how deep with blocks on the object nest
    MaxSessions     \* bound: how often the object is entered

ASSUME BoundsAssumption ==
    MaxDepth \in Nat \ {0} /\ MaxSessions \in Nat \ {0}

VARIABLES
    session,    \* self._session: the number of a session, or 0 for None
    made,       \* how many sessions the factory has made
    state,      \* of each session: unmade, open, or closed
    holding,    \* the sessions that have a connection
    added,      \* of each session: rows a commit of it would commit
    trouble,    \* of each session: what a failed call has made of it
    depth,      \* how many with blocks are open
    staged,     \* history: what each open block staged
    kept,       \* history: what blocks left cleanly had staged
    dropped,    \* history: what blocks left by an exception had staged
    doubtful,   \* history: rows a block kept that went on after a failed query
    unsure,     \* history: rows of a COMMIT whose answer was lost
    nested,     \* history: whether the object was ever entered while inside
    durable

histories == <<kept, dropped, doubtful, unsure>>
object == <<session, made, state, holding, added, trouble, depth, staged, histories, nested, durable>>

Sessions == 1..MaxSessions
Depths == 1..MaxDepth
None == 0

ObjectTypeOK ==
    /\ session \in Sessions \cup {None}
    /\ made \in 0..MaxSessions
    /\ state \in [Sessions -> {"unmade", "open", "closed"}]
    /\ holding \subseteq Sessions
    /\ added \in [Sessions -> SUBSET Rows]
    /\ trouble \in [Sessions -> {"none", "aborted", "poisoned"}]
    /\ depth \in 0..MaxDepth
    /\ staged \in [Depths -> SUBSET Rows]
    /\ kept \subseteq Rows /\ dropped \subseteq Rows /\ durable \subseteq Rows
    /\ doubtful \subseteq Rows /\ unsure \subseteq Rows
    /\ nested \in BOOLEAN

ObjectInit ==
    /\ session = None
    /\ made = 0
    /\ state = [n \in Sessions |-> "unmade"]
    /\ holding = {}
    /\ added = [n \in Sessions |-> {}]
    /\ trouble = [n \in Sessions |-> "none"]
    /\ depth = 0
    /\ staged = [d \in Depths |-> {}]
    /\ kept = {} /\ dropped = {} /\ durable = {} /\ doubtful = {} /\ unsure = {}
    /\ nested = FALSE

-----------------------------------------------------------------------------
(* __enter__ asks nothing about the session it replaces.                   *)
Enter ==
    /\ depth < MaxDepth
    /\ made < MaxSessions
    /\ made' = made + 1
    /\ session' = made + 1
    /\ state' = [state EXCEPT ![made + 1] = "open"]
    /\ depth' = depth + 1
    /\ staged' = [staged EXCEPT ![depth + 1] = {}]
    /\ nested' = (nested \/ depth > 0)
    /\ UNCHANGED <<holding, added, trouble, histories, durable>>

(* uow.session and uow.audit raise RuntimeError where there is no session, *)
(* so that nothing is added then.  Rows are fresh.                         *)
Add(r) ==
    /\ depth > 0
    /\ session # None
    /\ r \notin kept \cup dropped \cup durable /\ \A d \in 1..depth : r \notin staged[d]
    /\ added' = [added EXCEPT ![session] = @ \cup {r}]
    /\ staged' = [staged EXCEPT ![depth] = @ \cup {r}]
    /\ UNCHANGED <<session, made, state, holding, trouble, depth, histories, nested, durable>>

(* A query takes the connection, and is answered.                          *)
Query ==
    /\ depth > 0
    /\ session # None
    /\ trouble[session] = "none"
    /\ holding' = holding \cup {session}
    /\ UNCHANGED <<session, made, state, added, trouble, depth, staged, histories, nested, durable>>

(* A call fails and the block goes on.  What the session had is lost with  *)
(* the transaction.  After a flush or a COMMIT the session is poisoned: it *)
(* refuses everything until it is rolled back or closed.  After a statement*)
(* of a query it does not know: PostgreSQL refuses every other statement,  *)
(* and answers COMMIT by ROLLBACK, which is no error.                      *)
Breaks(how) ==
    /\ depth > 0
    /\ session # None
    /\ trouble[session] # "poisoned"
    /\ trouble' = [trouble EXCEPT ![session] = how]
    /\ added' = [added EXCEPT ![session] = {}]
    /\ UNCHANGED <<session, made, state, depth, staged, kept, dropped, doubtful, nested>>

StatementFails ==
    /\ Breaks("aborted")
    /\ trouble[session] = "none"
    /\ holding' = holding \cup {session}
    /\ UNCHANGED <<durable, unsure>>

FlushFails ==
    /\ Breaks("poisoned")
    /\ added[session] # {} \/ session \in holding
    /\ holding' \in {holding, holding \cup {session}}
    /\ UNCHANGED <<durable, unsure>>

(* COMMIT inside the block took effect and its answer was lost.            *)
CheckpointUnacknowledged ==
    /\ Breaks("poisoned")
    /\ trouble[session] = "none"
    /\ added[session] # {} \/ session \in holding
    /\ holding' = holding \cup {session}
    /\ durable' = durable \cup added[session]
    /\ unsure' = unsure \cup added[session]

(* Variant: self._session is not reset.                                    *)
CloseOnly ==
    /\ state' = [state EXCEPT ![session] = "closed"]
    /\ holding' = holding \ {session}
    /\ added' = [added EXCEPT ![session] = {}]
    /\ trouble' = [trouble EXCEPT ![session] = "none"]
    /\ UNCHANGED session

(* finally: session.close() and self._session = None.                      *)
Close ==
    /\ state' = [state EXCEPT ![session] = "closed"]
    /\ holding' = holding \ {session}
    /\ added' = [added EXCEPT ![session] = {}]
    /\ trouble' = [trouble EXCEPT ![session] = "none"]
    /\ session' = None

(* Variant: commit and rollback are swapped.                               *)
ExitSwapped(committing) ==
    /\ depth > 0
    /\ depth' = depth - 1
    /\ IF session = None
       THEN UNCHANGED <<session, state, holding, added, trouble, durable>>
       ELSE /\ durable' = IF committing THEN durable ELSE durable \cup added[session]
            /\ Close
    /\ staged' = [staged EXCEPT ![depth] = {}]
    /\ UNCHANGED <<made, nested>>

(* __exit__ returns at once where it finds no session.                     *)
Exit(committing) ==
    /\ depth > 0
    /\ depth' = depth - 1
    /\ IF session = None
       THEN UNCHANGED <<session, state, holding, added, trouble, durable>>
       ELSE /\ durable' = IF committing THEN durable \cup added[session] ELSE durable
            /\ Close
    /\ staged' = [staged EXCEPT ![depth] = {}]
    /\ UNCHANGED <<made, nested>>

Trusted == session # None => trouble[session] = "none"

(* Nothing is sent but a COMMIT that PostgreSQL answers by ROLLBACK.       *)
Pretends == session # None /\ trouble[session] = "aborted" /\ added[session] = {}

ExitClean ==
    /\ Trusted
    /\ Exit(TRUE)
    /\ kept' = kept \cup staged[depth]
    /\ UNCHANGED <<dropped, doubtful, unsure>>

ExitPretending ==
    /\ Pretends
    /\ Exit(FALSE)
    /\ kept' = kept \cup staged[depth]
    /\ doubtful' = doubtful \cup staged[depth]
    /\ UNCHANGED <<dropped, unsure>>

ExitRaise ==
    /\ Exit(FALSE)
    /\ dropped' = dropped \cup staged[depth]
    /\ UNCHANGED <<kept, doubtful, unsure>>

(* COMMIT took effect and its answer was lost: the block is left by an     *)
(* exception, and its caller cannot tell.                                  *)
ExitUnacknowledged ==
    /\ session # None
    /\ Trusted
    /\ session \in holding \/ added[session] # {}
    /\ Exit(TRUE)
    /\ dropped' = dropped \cup staged[depth]
    /\ unsure' = unsure \cup added[session]
    /\ UNCHANGED <<kept, doubtful>>

(* commit() and rollback() inside the block: the session goes on, without  *)
(* its connection.                                                         *)
Ended ==
    /\ depth > 0
    /\ session # None
    /\ holding' = holding \ {session}
    /\ added' = [added EXCEPT ![session] = {}]
    /\ trouble' = [trouble EXCEPT ![session] = "none"]
    /\ staged' = [staged EXCEPT ![depth] = {}]
    /\ UNCHANGED <<session, made, state, depth, nested, unsure>>

Checkpoint ==
    /\ Trusted
    /\ Ended
    /\ durable' = durable \cup added[session]
    /\ kept' = kept \cup staged[depth]
    /\ UNCHANGED <<dropped, doubtful>>

CheckpointPretending ==
    /\ Pretends
    /\ Ended
    /\ kept' = kept \cup staged[depth]
    /\ doubtful' = doubtful \cup staged[depth]
    /\ UNCHANGED <<dropped, durable>>

Rollback ==
    /\ Ended
    /\ dropped' = dropped \cup staged[depth]
    /\ UNCHANGED <<durable, kept, doubtful>>

(* The interpreter finalizes a session nothing refers to any more.         *)
Collect(n) ==
    /\ state[n] = "open"
    /\ n # session
    /\ state' = [state EXCEPT ![n] = "closed"]
    /\ holding' = holding \ {n}
    /\ added' = [added EXCEPT ![n] = {}]
    /\ trouble' = [trouble EXCEPT ![n] = "none"]
    /\ UNCHANGED <<session, made, depth, staged, histories, nested, durable>>

-----------------------------------------------------------------------------
(* unit_of_work.py:62-72: the object stands for an open session or for     *)
(* none, however often and however deep it was entered; no exit commits or *)
(* closes a session that was closed before.                                *)
SessionIsOpen == session # None => state[session] = "open"

(* unit_of_work.py:65-82: what was rolled back, by a block left by an      *)
(* exception or inside it, is not committed by another block on the same   *)
(* object, unless a COMMIT of it was carried out and its answer was lost.  *)
DroppedIsGone == dropped \cap durable \subseteq unsure

(* unit_of_work.py:65-78: while its blocks are not nested, an object used  *)
(* again and again commits what a block kept, unless the block went on     *)
(* after a failed query, and it holds neither session nor connection       *)
(* between the blocks.                                                     *)
ReuseIsSafe ==
    ~nested => /\ kept \subseteq durable \cup doubtful
               /\ depth = 0 => session = None /\ holding = {}
=============================================================================
