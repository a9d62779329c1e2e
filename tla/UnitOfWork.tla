----------------------------- MODULE UnitOfWork -----------------------------
(***************************************************************************)
(* Units of work of one process: the SqlAlchemyUnitOfWork context manager, *)
(* the session it opens, the audit sink bound to it, the pool its          *)
(* connection comes from and the PostgreSQL transaction behind it.         *)
(*                                                                         *)
(* Several threads run use cases at once, one unit each.  A use case adds  *)
(* rows to the session, may query (which flushes them first, autoflush),   *)
(* may checkpoint or discard, may swallow an error, and leaves the with    *)
(* block cleanly or by an exception.  session.add, flush, commit, rollback *)
(* and close are SQLAlchemy's, modelled by what they do.                   *)
(***************************************************************************)
EXTENDS ConnectionPool, FiniteSets

CONSTANTS
    Actions,    \* the business actions; each has a change and its audit event
    Rejected    \* <<unit, row>>: what the database refuses, as that unit writes
                \* it (a value longer than its column)

Units == Clients

(* Rows are identified by their primary key, so that the same event        *)
(* recorded by two units is the same row.                                  *)
Rows == {"change", "audit"} \X Actions

ASSUME RejectedAssumption == Rejected \subseteq Units \X Rows

VARIABLES
    at,         \* where each unit is: in its body, inside a call, or ended
    tx,         \* its session's transaction: "active"; "inactive" once a flush
                \* failed, refusing everything until it is rolled back; "aborted"
                \* when a statement failed, which PostgreSQL knows and the
                \* session does not
    pending,    \* rows added to the session and not flushed
    written,    \* rows flushed into the database transaction
    durable,    \* the <<unit, row>> pairs the database has committed
    staged,     \* history: rows the use case staged since the last boundary
    promised,   \* history: rows a boundary reported to the use case as kept
    unsure,     \* history: units to which the fate of a COMMIT is unknown
    warned,     \* history: units whose use case got an error from a call and
                \* has neither rolled back nor crossed a boundary since
    doubtful    \* history: rows promised at a boundary of a warned unit

sessionVars == <<tx, pending, written>>
promiseVars == <<staged, promised, unsure, doubtful>>
historyVars == <<promiseVars, warned>>
vars == <<server, slot, waiting, at, tx, pending, written, durable,
          staged, promised, unsure, warned, doubtful>>

InCall == {"query", "commit", "exit"}
Inside == {"body"} \cup InCall
Ended  == {"returned", "raised", "killed"}

TypeOK ==
    /\ PoolTypeOK
    /\ at \in [Units -> {"new"} \cup Inside \cup Ended]
    /\ tx \in [Units -> {"active", "aborted", "inactive"}]
    /\ pending \in [Units -> SUBSET Rows]
    /\ written \in [Units -> SUBSET Rows]
    /\ durable \subseteq Units \X Rows
    /\ staged \in [Units -> SUBSET Rows]
    /\ promised \in [Units -> SUBSET Rows]
    /\ unsure \subseteq Units
    /\ warned \subseteq Units
    /\ doubtful \in [Units -> SUBSET Rows]

Init ==
    /\ PoolInit
    /\ at = [u \in Units |-> "new"]
    /\ tx = [u \in Units |-> "active"]
    /\ pending = [u \in Units |-> {}]
    /\ written = [u \in Units |-> {}]
    /\ durable = {}
    /\ staged = [u \in Units |-> {}]
    /\ promised = [u \in Units |-> {}]
    /\ unsure = {}
    /\ warned = {}
    /\ doubtful = [u \in Units |-> {}]

-----------------------------------------------------------------------------
(* What a call does to the session.                                        *)

(* A new transaction with nothing in it: rollback(), close(), and commit() *)
(* once it has succeeded.                                                  *)
SessionCleared(u) ==
    /\ tx' = [tx EXCEPT ![u] = "active"]
    /\ pending' = [pending EXCEPT ![u] = {}]
    /\ written' = [written EXCEPT ![u] = {}]

(* A failed flush rolls the whole transaction back and forgets every       *)
(* object added to it; the session refuses further work until rollback().  *)
SessionPoisoned(u) ==
    /\ tx' = [tx EXCEPT ![u] = "inactive"]
    /\ pending' = [pending EXCEPT ![u] = {}]
    /\ written' = [written EXCEPT ![u] = {}]

(* Variant: close() is not in a finally clause.                            *)
CallRaisesUnclosed(u) ==
    /\ IF at[u] = "exit"
       THEN at' = [at EXCEPT ![u] = "raised"] /\ SessionCleared(u)
       ELSE at' = [at EXCEPT ![u] = "body"] /\ SessionPoisoned(u)
    /\ UNCHANGED <<slot, warned>>

(* The call u is in raises.  In __exit__ the finally clause closes the     *)
(* session and the exception leaves the block; elsewhere the use case gets *)
(* it, and may go on.                                                      *)
CallRaises(u) ==
    IF at[u] = "exit"
    THEN /\ at' = [at EXCEPT ![u] = "raised"]
         /\ SessionCleared(u)
         /\ slot' = Returned(u)
         /\ UNCHANGED warned
    ELSE /\ at' = [at EXCEPT ![u] = "body"]
         /\ SessionPoisoned(u)
         /\ warned' = warned \cup {u}
         /\ UNCHANGED slot

(* A boundary was crossed without an error: the use case takes what it     *)
(* staged for kept, with a doubt if it swallowed an error on the way.      *)
BoundaryHeld(u) ==
    /\ at' = [at EXCEPT ![u] = IF @ = "exit" THEN "returned" ELSE "body"]
    /\ promised' = [promised EXCEPT ![u] = @ \cup staged[u]]
    /\ doubtful' = [doubtful EXCEPT ![u] =
                       IF u \in warned THEN @ \cup staged[u] ELSE @]
    /\ staged' = [staged EXCEPT ![u] = {}]
    /\ warned' = warned \ {u}
    /\ UNCHANGED unsure

-----------------------------------------------------------------------------
(* What the use case does in the body.                                     *)

Enter(u) ==
    /\ at[u] = "new"
    /\ at' = [at EXCEPT ![u] = "body"]
    /\ SessionCleared(u)
    /\ UNCHANGED <<poolVars, durable, historyVars>>

(* Variant: the event is added to the session, not a record of it.         *)
AddUnmapped(u, r) ==
    /\ at[u] = "body"
    /\ r \notin staged[u] \cup promised[u]
    /\ staged' = [staged EXCEPT ![u] = @ \cup {r}]
    /\ pending' = [pending EXCEPT ![u] = @ \cup {r[2]}]
    /\ UNCHANGED <<poolVars, at, tx, written, durable, promised, unsure, warned, doubtful>>

(* session.add touches no connection and works on a poisoned session.      *)
Add(u, r) ==
    /\ at[u] = "body"
    /\ r \notin staged[u] \cup promised[u]
    /\ staged' = [staged EXCEPT ![u] = @ \cup {r}]
    /\ pending' = [pending EXCEPT ![u] = @ \cup {r}]
    /\ UNCHANGED <<poolVars, at, tx, written, durable, promised, unsure, warned, doubtful>>

Change(u, a) == Add(u, <<"change", a>>)

(* Variant: the sink commits the record by itself.                         *)
RecordAndCommit(u, a) ==
    /\ at[u] = "body"
    /\ <<"audit", a>> \notin staged[u] \cup promised[u]
    /\ staged' = [staged EXCEPT ![u] = @ \cup {<<"audit", a>>}]
    /\ durable' = durable \cup {<<u, <<"audit", a>>>>}
    /\ UNCHANGED <<poolVars, at, sessionVars, promised, unsure, warned, doubtful>>

(* uow.audit.record(event): the sink adds the record and does no more.     *)
Record(u, a) == Add(u, <<"audit", a>>)

Query(u) ==
    /\ at[u] = "body"
    /\ at' = [at EXCEPT ![u] = "query"]
    /\ UNCHANGED <<poolVars, sessionVars, durable, historyVars>>

(* The use cases of audit_sink.py:3-5: an event is written in the same     *)
(* unit of work as the action it describes, so a boundary finds both       *)
(* staged or neither.                                                      *)
Paired(u) == \A a \in Actions :
                <<"change", a>> \in staged[u] <=> <<"audit", a>> \in staged[u]

Commit(u) ==
    /\ at[u] = "body"
    /\ Paired(u)
    /\ at' = [at EXCEPT ![u] = "commit"]
    /\ UNCHANGED <<poolVars, sessionVars, durable, historyVars>>

ExitClean(u) ==
    /\ at[u] = "body"
    /\ Paired(u)
    /\ at' = [at EXCEPT ![u] = "exit"]
    /\ UNCHANGED <<poolVars, sessionVars, durable, historyVars>>

(* Variant: rollback() forgets only what was not flushed yet.              *)
RollbackPending(u) ==
    /\ at[u] = "body"
    /\ pending' = [pending EXCEPT ![u] = {}]
    /\ staged' = [staged EXCEPT ![u] = {}]
    /\ UNCHANGED <<poolVars, at, tx, written, durable, promised, unsure, warned, doubtful>>

(* rollback() gives the connection back, even when it raises because the   *)
(* connection is dead.                                                     *)
Rollback(u) ==
    /\ at[u] = "body"
    /\ SessionCleared(u)
    /\ slot' = Returned(u)
    /\ staged' = [staged EXCEPT ![u] = {}]
    /\ warned' = warned \ {u}
    /\ UNCHANGED <<server, waiting, at, durable, promised, unsure, doubtful>>

(* Variant: an exception commits what was flushed.                         *)
ExitRaiseCommits(u) ==
    /\ at[u] = "body"
    /\ at' = [at EXCEPT ![u] = "raised"]
    /\ durable' = durable \cup ({u} \X written[u])
    /\ SessionCleared(u)
    /\ slot' = Returned(u)
    /\ UNCHANGED <<server, waiting, historyVars>>

(* __exit__ with an exception: rollback(), then close() in any case.       *)
ExitRaise(u) ==
    /\ at[u] = "body"
    /\ at' = [at EXCEPT ![u] = "raised"]
    /\ SessionCleared(u)
    /\ slot' = Returned(u)
    /\ UNCHANGED <<server, waiting, durable, historyVars>>

-----------------------------------------------------------------------------
(* Inside a call that needs the database.                                  *)

(* The session goes by its own transaction, not by PostgreSQL's.           *)
Usable(u) == at[u] \in InCall /\ tx[u] # "inactive"

NeedsDatabase(u) == at[u] = "query" \/ pending[u] # {}

(* PendingRollbackError, before anything is sent.                          *)
Refuse(u) ==
    /\ at[u] \in InCall
    /\ tx[u] = "inactive"
    /\ CallRaises(u)
    /\ UNCHANGED <<server, waiting, durable, promiseVars>>

(* commit() on a session that never needed a connection does nothing.      *)
NothingToCommit(u) ==
    /\ Usable(u)
    /\ ~NeedsDatabase(u)
    /\ ~Holds(u)
    /\ BoundaryHeld(u)
    /\ UNCHANGED <<poolVars, sessionVars, durable>>

(* The connection is checked out when it is first needed, not on entry.    *)
Checkout(u) ==
    /\ Usable(u)
    /\ NeedsDatabase(u)
    /\ Request(u)
    /\ UNCHANGED <<at, sessionVars, durable, historyVars>>

Connected(u) ==
    /\ \E s \in Slots : Grant(u, s)
    /\ UNCHANGED <<at, sessionVars, durable, historyVars>>

(* No connection could be had.  With rows to flush that is a failed flush; *)
(* a bare query leaves the session as it was.                              *)
NotConnected(u) ==
    /\ (\E s \in Slots : ConnectFail(u, s)) \/ Timeout(u)
    /\ at' = [at EXCEPT ![u] = IF @ = "exit" THEN "raised" ELSE "body"]
    /\ IF at[u] = "exit" THEN SessionCleared(u)
       ELSE IF pending[u] # {} THEN SessionPoisoned(u)
       ELSE UNCHANGED sessionVars
    /\ warned' = IF at[u] = "exit" THEN warned ELSE warned \cup {u}
    /\ UNCHANGED <<durable, promiseVars>>

(* Rows another open transaction has inserted: a second insert of the same *)
(* key waits for its end.  A transaction whose connection broke is gone.   *)
Locked(v) == IF HasLink(v, "live") THEN written[v] ELSE {}

WaitsFor(u, v) ==
    /\ u # v
    /\ at[u] \in InCall
    /\ tx[u] = "active"
    /\ HasLink(u, "live")
    /\ pending[u] \cap Locked(v) # {}

(* Variant: nobody looks for deadlocks.                                    *)
NeverDeadlocked(u) == FALSE

(* A circle of transactions waiting for each other, which PostgreSQL       *)
(* breaks by aborting one of them after deadlock_timeout.                  *)
Deadlocked(u) == \E D \in SUBSET Units :
    /\ u \in D
    /\ \A v \in D : /\ \E w \in D : WaitsFor(v, w)
                    /\ \E w \in D : WaitsFor(w, v)

Exists(r) == \E v \in Units : <<v, r>> \in durable

Flushing(u) == Usable(u) /\ Holds(u) /\ pending[u] # {}

(* Variant: the event's identifier is not the table's primary key.         *)
FlushKeyless(u) ==
    /\ Flushing(u)
    /\ tx[u] = "active"
    /\ HasLink(u, "live")
    /\ \A r \in pending[u] : <<u, r>> \notin Rejected
    /\ written' = [written EXCEPT ![u] = @ \cup pending[u]]
    /\ pending' = [pending EXCEPT ![u] = {}]
    /\ UNCHANGED <<poolVars, at, tx, durable, historyVars>>

Flush(u) ==
    /\ Flushing(u)
    /\ tx[u] = "active"
    /\ HasLink(u, "live")
    /\ \A r \in pending[u] : <<u, r>> \notin Rejected /\ ~Exists(r)
    /\ \A v \in Units : ~WaitsFor(u, v)
    /\ written' = [written EXCEPT ![u] = @ \cup pending[u]]
    /\ pending' = [pending EXCEPT ![u] = {}]
    /\ UNCHANGED <<poolVars, at, tx, durable, historyVars>>

FlushFails(u) ==
    /\ Flushing(u)
    /\ \/ HasLink(u, "dead")
       \/ tx[u] = "aborted"
       \/ \E r \in pending[u] : <<u, r>> \in Rejected \/ Exists(r)
       \/ Deadlocked(u)
    /\ CallRaises(u)
    /\ UNCHANGED <<server, waiting, durable, promiseVars>>

Flushed(u) == Usable(u) /\ Holds(u) /\ pending[u] = {}

QueryAnswered(u) ==
    /\ Flushed(u)
    /\ at[u] = "query"
    /\ tx[u] = "active"
    /\ HasLink(u, "live")
    /\ at' = [at EXCEPT ![u] = "body"]
    /\ UNCHANGED <<poolVars, sessionVars, durable, historyVars>>

(* The statement itself fails: its SQL, its data, a lock, a cancel, or     *)
(* because one failed before it.  PostgreSQL drops what was flushed and    *)
(* releases its locks; the session stays as it was, the use case gets the  *)
(* error.                                                                  *)
QueryFails(u) ==
    /\ Flushed(u)
    /\ at[u] = "query"
    /\ HasLink(u, "live")
    /\ at' = [at EXCEPT ![u] = "body"]
    /\ tx' = [tx EXCEPT ![u] = "aborted"]
    /\ written' = [written EXCEPT ![u] = {}]
    /\ warned' = warned \cup {u}
    /\ UNCHANGED <<poolVars, pending, durable, promiseVars>>

(* COMMIT is sent and acknowledged; the connection goes back to the pool.  *)
Committed(u) ==
    /\ Flushed(u)
    /\ at[u] # "query"
    /\ tx[u] = "active"
    /\ HasLink(u, "live")
    /\ durable' = durable \cup ({u} \X written[u])
    /\ BoundaryHeld(u)
    /\ SessionCleared(u)
    /\ slot' = Returned(u)
    /\ UNCHANGED <<server, waiting>>

(* COMMIT of an aborted transaction: PostgreSQL answers ROLLBACK, which is *)
(* an answer like any other to the driver, and nothing raises.             *)
CommitRolledBack(u) ==
    /\ Flushed(u)
    /\ at[u] # "query"
    /\ tx[u] = "aborted"
    /\ HasLink(u, "live")
    /\ BoundaryHeld(u)
    /\ SessionCleared(u)
    /\ slot' = Returned(u)
    /\ UNCHANGED <<server, waiting, durable>>

(* COMMIT is carried out and the connection breaks before the answer.      *)
CommitUnacknowledged(u) ==
    /\ Flushed(u)
    /\ at[u] # "query"
    /\ tx[u] = "active"
    /\ HasLink(u, "live")
    /\ durable' = durable \cup ({u} \X written[u])
    /\ unsure' = unsure \cup {u}
    /\ written' = [written EXCEPT ![u] = {}]
    /\ slot' = Severed({s \in Slots : slot[s].owner = u})
    /\ UNCHANGED <<server, waiting, at, tx, pending, staged, promised, warned, doubtful>>

(* The statement or the COMMIT finds the connection dead.                  *)
LinkFoundDead(u) ==
    /\ Flushed(u)
    /\ HasLink(u, "dead")
    /\ CallRaises(u)
    /\ UNCHANGED <<server, waiting, durable, promiseVars>>

-----------------------------------------------------------------------------
Kill ==
    /\ \E u \in Units : at[u] \in Inside
    /\ ProcessEnds
    /\ at' = [u \in Units |-> IF at[u] \in Inside THEN "killed" ELSE at[u]]
    /\ tx' = [u \in Units |-> "active"]
    /\ pending' = [u \in Units |-> {}]
    /\ written' = [u \in Units |-> {}]
    /\ UNCHANGED <<durable, historyVars>>

Body(u) ==
    \/ \E a \in Actions : Change(u, a) \/ Record(u, a)
    \/ Query(u)
    \/ Commit(u)
    \/ Rollback(u)

Leave(u) == ExitClean(u) \/ ExitRaise(u)

Call(u) ==
    \/ Refuse(u) \/ NothingToCommit(u)
    \/ Checkout(u) \/ Connected(u) \/ NotConnected(u)
    \/ Flush(u) \/ FlushFails(u)
    \/ QueryAnswered(u) \/ QueryFails(u)
    \/ Committed(u) \/ CommitRolledBack(u) \/ CommitUnacknowledged(u)
    \/ LinkFoundDead(u)

Elsewhere ==
    /\ Surroundings
    /\ UNCHANGED <<at, sessionVars, durable, historyVars>>

Next ==
    \/ \E u \in Units : Enter(u) \/ Body(u) \/ Leave(u) \/ Call(u)
    \/ Elsewhere
    \/ Kill

(* A call in progress proceeds: statements are answered or fail, the pool  *)
(* times out and PostgreSQL breaks deadlocks.  A use case is a finite      *)
(* piece of code, so that it leaves its block however often it is inside a *)
(* call in between (strong fairness).  The server need not come back, and  *)
(* nothing need be killed.                                                 *)
Fairness ==
    \A u \in Units : WF_vars(Call(u)) /\ SF_vars(Leave(u))

Spec == Init /\ [][Next]_vars /\ Fairness

-----------------------------------------------------------------------------
DurableOf(u) == {r \in Rows : <<u, r>> \in durable}

(* audit_sink.py:3-5, sink.py:16-18: a committed change always has its     *)
(* record and a record its change, also across autoflush, a checkpoint,    *)
(* errors the use case swallowed, a COMMIT without an answer and a kill.   *)
Evidence == \A u \in Units : \A a \in Actions :
    <<"change", a>> \in DurableOf(u) <=> <<"audit", a>> \in DurableOf(u)

(* unit_of_work.py:56-78: what a boundary that did not raise told the use  *)
(* case is kept, and nothing else is: work staged since, work rolled back, *)
(* and work a swallowed error cost the unit, is not in the database.  Two  *)
(* exceptions, both of which the use case can know of: rows it carried     *)
(* over a boundary after swallowing an error may be gone, and a COMMIT     *)
(* nobody answered may have kept what no boundary promised.                *)
Truthful == \A u \in Units :
    /\ promised[u] \ doubtful[u] \subseteq DurableOf(u)
    /\ u \notin unsure => DurableOf(u) \subseteq promised[u]

(* unit_of_work.py (port) 23-24, unit_of_work.py:3-4: leaving the block    *)
(* without an exception, or commit() without one, has committed.           *)
HeldIsCommitted == \A u \in Units : promised[u] \subseteq DurableOf(u)

(* models.py:34: an event has one identifier and one row, whichever units  *)
(* record it at once and in whatever order they flush, fail and commit.    *)
CommittedByOne == \A u, v \in Units : u # v => DurableOf(u) \cap DurableOf(v) = {}

(* unit_of_work.py:70-72: a unit has a connection only while it is inside  *)
(* its block, whatever ended it, and waits for one only in a call that     *)
(* still needs it: nothing keeps a place of the pool from the others.      *)
NoLeak ==
    /\ \A s \in Slots : slot[s].owner # Nobody => at[slot[s].owner] \in Inside
    /\ \A u \in waiting : Usable(u) /\ NeedsDatabase(u)

(* No unit stays in its block for ever: not behind the pool, behind        *)
(* another unit's rows, or behind a server that is gone.                   *)
UnitsEnd == \A u \in Units : at[u] = "body" ~> at[u] \in Ended

(***************************************************************************)
(* The abstract units.  A unit whose session is poisoned, whose            *)
(* transaction is aborted or whose connection broke has lost its work,     *)
(* whether or not it knows.                                                *)
(***************************************************************************)
Doomed(u) == tx[u] # "active" \/ HasLink(u, "dead")

Phase == [u \in Units |-> IF at[u] \notin Inside THEN at[u]
                          ELSE IF Doomed(u) THEN "lost" ELSE "open"]

Atomic == INSTANCE AtomicUnits WITH committed <- durable, phase <- Phase

(* unit_of_work.py (port) 23-25: the session, the pool and the database    *)
(* together are atomic units, whichever call fails and whatever the use    *)
(* case makes of the failure.  A unit that was never told of one does not  *)
(* pretend: it commits what it staged, or raises.                          *)
ImplementsAtomicUnits == Atomic!Spec

-----------------------------------------------------------------------------
(* Why Evidence and Truthful hold: the inductive invariant.                *)

(* What the use case believes it has staged is what the session has, unless*)
(* the session is going to refuse or fail the next boundary.               *)
SessionMatchesBelief == \A u \in Units :
    /\ at[u] = "new" => staged[u] = {}
    /\ at[u] \in Inside /\ ~Doomed(u) => staged[u] = pending[u] \cup written[u]

(* Rows flushed into a transaction have that transaction's connection, and *)
(* so has a transaction in which a statement failed; only a use case that  *)
(* was told has one.                                                       *)
WrittenIsHeld == \A u \in Units :
    /\ written[u] # {} => Holds(u)
    /\ tx[u] = "aborted" => Holds(u) /\ u \in warned

(* A row written in an open transaction is nobody else's, open or durable. *)
LockedAlone == \A u, v \in Units :
    u # v => Locked(u) \cap (Locked(v) \cup DurableOf(v)) = {}

(* A boundary in progress was entered with changes and records paired.     *)
PairedAtBoundary == \A u \in Units : at[u] \in {"commit", "exit"} => Paired(u)

(* The conjunction that every step preserves; Evidence alone would not     *)
(* survive a commit, nor Truthful an autoflush that fails.                 *)
IInv ==
    /\ TypeOK
    /\ OneConnectionEach
    /\ NoLeak
    /\ SessionMatchesBelief
    /\ WrittenIsHeld
    /\ PairedAtBoundary
    /\ Evidence
    /\ Truthful
    /\ LockedAlone
    /\ CommittedByOne
=============================================================================
