----------------------------- MODULE Migrations -----------------------------
(***************************************************************************)
(* Runs of "alembic upgrade head" and "alembic downgrade -1" against one   *)
(* database, several at a time: two deployments, or an operator beside     *)
(* one.  env.py connects without a pool and asks for one transaction per   *)
(* revision.                                                               *)
(*                                                                         *)
(* Alembic and PostgreSQL are not in the repository; what they do with     *)
(* these settings is modelled: the heads are read, outside of any lock,    *)
(* before the first revision, so that a plan may be stale; DDL is          *)
(* transactional, and a statement that meets another run's uncommitted     *)
(* work waits for it.                                                      *)
(***************************************************************************)
EXTENDS Integers

CONSTANTS
    Runs,       \* processes that run alembic
    Last,       \* the head: revisions are numbered in order, today there is 1
    MaxStarts   \* bound: how many times alembic is started altogether

ASSUME LastAssumption == Last \in Nat \ {0}
ASSUME MaxStartsAssumption == MaxStarts \in Nat

VARIABLES
    applied,    \* revisions whose tables and indexes are in the database
    versions,   \* the rows of alembic_version
    table,      \* whether alembic_version exists
    phase,      \* how far each run is
    head,       \* where each run believes the database is, 0 for the base
    target,     \* where it is going
    makes,      \* runs that have created alembic_version and not committed it
    starts      \* how many times alembic was started

database == <<applied, versions, table>>
vars == <<applied, versions, table, phase, head, target, makes, starts>>

Revisions == 1..Last

(* ready: between two revisions.  changed: the revision's DDL was executed *)
(* in the open transaction.  versioned: so was the change of the version.  *)
Working == {"preparing", "ready", "changed", "versioned"}
Over == {"idle", "done", "failed"}

TypeOK ==
    /\ applied \subseteq Revisions
    /\ versions \subseteq Revisions
    /\ table \in BOOLEAN
    /\ phase \in [Runs -> Working \cup Over]
    /\ head \in [Runs -> 0..Last]
    /\ target \in [Runs -> 0..Last]
    /\ makes \subseteq Runs
    /\ starts \in 0..MaxStarts

(* A new database.                                                         *)
Init ==
    /\ applied = {} /\ versions = {} /\ table = FALSE
    /\ phase = [p \in Runs |-> "idle"]
    /\ head = [p \in Runs |-> 0]
    /\ target = [p \in Runs |-> 0]
    /\ makes = {}
    /\ starts = 0

-----------------------------------------------------------------------------
Becomes(p, new) == phase' = [phase EXCEPT ![p] = new]

(* The run's transaction is rolled back and it ends with an error.         *)
Abort(p) ==
    /\ Becomes(p, "failed")
    /\ makes' = makes \ {p}
    /\ UNCHANGED <<database, head, target, starts>>

(* The revision a run is at, and what its success makes the version.       *)
Upgrading(p) == head[p] < target[p]
Revision(p) == IF Upgrading(p) THEN head[p] + 1 ELSE head[p]
After(p) == IF Upgrading(p) THEN head[p] + 1 ELSE head[p] - 1

(* Another run has executed the DDL of the revision p is at.               *)
SchemaLocked(p) ==
    \E q \in Runs \ {p} : phase[q] \in {"changed", "versioned"} /\ Revision(q) = Revision(p)

(* Another run has changed the row p is to change, or made the one it is   *)
(* to make.                                                                *)
VersionLocked(p) ==
    \E q \in Runs \ {p} : phase[q] = "versioned" /\
        (head[q] = head[p] \/ After(q) = After(p))

-----------------------------------------------------------------------------
(* Variant: an upgrade takes one revision.                                 *)
TargetNext(direction, h) == IF direction = "upgrade" /\ h < Last THEN h + 1
                            ELSE IF direction = "upgrade" THEN h ELSE h - 1

(* The target of a run that finds the database at h.                       *)
Target(direction, h) == IF direction = "upgrade" THEN Last ELSE h - 1

(* Variant: the base may be left downwards.                                *)
ReachableAlways(direction, h) == TRUE

(* "downgrade -1" at the base is an error.                                 *)
Reachable(direction, h) == Target(direction, h) >= 0

(* The heads are read.  With nothing found alembic_version is made sure    *)
(* of; with nothing to do the run is done.                                 *)
Begin(p, direction) ==
    LET found == IF versions = {} THEN 0 ELSE CHOOSE v \in versions : TRUE
    IN  /\ phase[p] \in Over
        /\ starts < MaxStarts
        /\ starts' = starts + 1
        /\ IF ~Reachable(direction, found)
           THEN /\ Becomes(p, "failed")
                /\ UNCHANGED <<head, target>>
           ELSE /\ head' = [head EXCEPT ![p] = found]
                /\ target' = [target EXCEPT ![p] = Target(direction, found)]
                /\ Becomes(p, IF found = 0 THEN "preparing"
                              ELSE IF found = Target(direction, found) THEN "done"
                              ELSE "ready")
        /\ UNCHANGED <<database, makes>>

(* CREATE TABLE alembic_version, if it is not there.  A run that looked    *)
(* before another one committed the table, and creates it after, fails.    *)
EnsureVersionTable(p) ==
    /\ phase[p] = "preparing"
    /\ makes \subseteq {p}
    /\ \/ /\ Becomes(p, "ready")
          /\ makes' = IF table THEN makes ELSE makes \cup {p}
          /\ UNCHANGED <<database, head, target, starts>>
       \/ table /\ Abort(p)

(* Variant: the DDL is committed by itself.                                *)
ChangeSchemaByItself(p) ==
    /\ phase[p] = "ready"
    /\ ~SchemaLocked(p)
    /\ IF (Revision(p) \in applied) = Upgrading(p)
       THEN Abort(p)
       ELSE /\ Becomes(p, "changed")
            /\ applied' = IF Upgrading(p) THEN applied \cup {Revision(p)}
                          ELSE applied \ {Revision(p)}
            /\ UNCHANGED <<versions, table, head, target, makes, starts>>

(* upgrade() or downgrade() of the revision: what it creates must not be   *)
(* there, what it drops must.                                              *)
ChangeSchema(p) ==
    /\ phase[p] = "ready"
    /\ ~SchemaLocked(p)
    /\ IF (Revision(p) \in applied) = Upgrading(p)
       THEN Abort(p)
       ELSE /\ Becomes(p, "changed")
            /\ UNCHANGED <<database, head, target, makes, starts>>

(* Variants: a row that is not there is not noticed, or is waited for.     *)
MoveVersionBlindly(p) ==
    /\ phase[p] = "changed"
    /\ ~VersionLocked(p)
    /\ Becomes(p, "versioned")
    /\ UNCHANGED <<database, head, target, makes, starts>>

MoveVersionPatiently(p) ==
    /\ phase[p] = "changed"
    /\ ~VersionLocked(p)
    /\ head[p] \in versions \cup {0} /\ After(p) \notin versions
    /\ Becomes(p, "versioned")
    /\ UNCHANGED <<database, head, target, makes, starts>>

(* The version is inserted, updated or deleted; a statement that does not  *)
(* match exactly one row fails the run, and so does a duplicate.           *)
MoveVersion(p) ==
    /\ phase[p] = "changed"
    /\ ~VersionLocked(p)
    /\ IF head[p] \in versions \cup {0} /\ After(p) \notin versions
       THEN /\ Becomes(p, "versioned")
            /\ UNCHANGED <<database, head, target, makes, starts>>
       ELSE Abort(p)

(* What the transaction of the revision does to the database.              *)
Committed(p) ==
    /\ applied' = IF Upgrading(p) THEN applied \cup {Revision(p)}
                  ELSE applied \ {Revision(p)}
    /\ versions' = (versions \ {head[p]}) \cup ({After(p)} \ {0})
    /\ table' = (table \/ p \in makes)
    /\ makes' = makes \ {p}

Commit(p) ==
    /\ phase[p] = "versioned"
    /\ Committed(p)
    /\ head' = [head EXCEPT ![p] = After(p)]
    /\ Becomes(p, IF After(p) = target[p] THEN "done" ELSE "ready")
    /\ UNCHANGED <<target, starts>>

(* The connection breaks before COMMIT is answered.                        *)
CommitUnacknowledged(p) ==
    /\ phase[p] = "versioned"
    /\ Committed(p)
    /\ Becomes(p, "failed")
    /\ UNCHANGED <<head, target, starts>>

(* A statement fails, the connection breaks, the process is ended.         *)
Fail(p) ==
    /\ phase[p] \in Working
    /\ Abort(p)

Proceed(p) == EnsureVersionTable(p) \/ ChangeSchema(p) \/ MoveVersion(p) \/ Commit(p)

Next ==
    \E p \in Runs :
        \/ \E direction \in {"upgrade", "downgrade"} : Begin(p, direction)
        \/ Proceed(p) \/ CommitUnacknowledged(p) \/ Fail(p)

(* PostgreSQL answers, if need be when another run's transaction has ended. *)
Spec == Init /\ [][Next]_vars /\ \A p \in Runs : WF_vars(Proceed(p))

-----------------------------------------------------------------------------
(* env.py:73-74, "a failure cannot leave a partially applied revision      *)
(* behind": whatever fails or interleaves, what is in the database is the  *)
(* first revisions up to one, and alembic_version says which.              *)
SchemaMatchesVersion ==
    \/ applied = {} /\ versions = {}
    \/ \E v \in Revisions : versions = {v} /\ applied = 1..v /\ table

(* infra/migrations/README.md:24-26, "alembic upgrade head": an upgrade    *)
(* that ends well leaves the database at the head, though another run may  *)
(* have moved it since the plan was made.                                  *)
UpgradedMeansHead ==
    [][\A p \in Runs :
         /\ phase[p] # "done" /\ phase'[p] = "done"
         /\ phase[p] \in Over \/ Upgrading(p)
         => versions' = {Last}]_vars

(* What SchemaMatchesVersion rests on.  A run that goes on has work left;  *)
(* while its transaction is open, nobody else is at its revision, which is *)
(* as its statements found it; and with the version changed as well, the   *)
(* version was the one it started from, and no other run is as far.        *)
InTransaction(p) == phase[p] \in {"changed", "versioned"}

PlanIsOpen == \A p \in Runs : phase[p] \in Working =>
    \/ target[p] = Last /\ head[p] < Last
    \/ target[p] = head[p] - 1

FoundAsExpected == \A p \in Runs : InTransaction(p) =>
    (Upgrading(p) <=> Revision(p) \notin applied)

RevisionsAreLocked == \A p, q \in Runs :
    p # q /\ InTransaction(p) /\ InTransaction(q) => Revision(p) # Revision(q)

VersionIsLocked == \A p \in Runs : phase[p] = "versioned" =>
    /\ versions = {head[p]} \ {0}
    /\ \A q \in Runs \ {p} : phase[q] # "versioned"

TableIsThere == \A p \in Runs :
    phase[p] = "ready" \/ InTransaction(p) => table \/ p \in makes

IInv ==
    /\ TypeOK
    /\ SchemaMatchesVersion
    /\ PlanIsOpen
    /\ FoundAsExpected
    /\ RevisionsAreLocked
    /\ VersionIsLocked
    /\ TableIsThere

(* env.py:65-79: runs that meet in the database do not wait for each other *)
(* for ever, whichever directions they go.                                 *)
RunsEnd == \A p \in Runs : phase[p] \in Working ~> phase[p] \in Over
=============================================================================
