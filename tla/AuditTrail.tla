----------------------------- MODULE AuditTrail -----------------------------
(***************************************************************************)
(* From the construction of an AuditEvent to its row in audit_events: the  *)
(* dictionaries that carry its context, the blocks of one unit of work     *)
(* object it is recorded in, and the time the database puts on it.         *)
(*                                                                         *)
(* What is in a context is told apart only as fine or forbidden, where     *)
(* forbidden stands for whatever AuditEvent.__post_init__ refuses.         *)
(* PostgreSQL's part is external: now() is when the transaction began, and *)
(* the primary key admits one row per event.                               *)
(***************************************************************************)
EXTENDS UnitObject

CONSTANTS
    Events,
    MaxTime     \* bound: how far the clock goes

ASSUME MaxTimeAssumption == MaxTime \in Nat \ {0}

VARIABLES
    dict,       \* which dictionary each holder of a context refers to
    content,    \* what is in each dictionary
    accepted,   \* events that were constructed
    bare,       \* history: of these, the ones not made by record_audit_event
    reached,    \* history: events changed through event.context
    of,         \* the event each row records
    handed,     \* history: the context of the event when it was recorded
    stored,     \* the context column, once the row is flushed
    stamp,      \* recorded_at, 0 until the row is flushed
    begun,      \* of each session: when its transaction began, 0 for none
    since,      \* history: when the session was made or last ended one
    now         \* the clock

event == <<dict, content, accepted, bare, reached>>
row == <<of, handed, stored, stamp>>
time == <<begun, since, now>>
vars == <<object, event, row, time>>

Contents == {"fine", "forbidden"}

(* Each holder has a dictionary of its own to make, and refers to it or to *)
(* another's.                                                              *)
Caller(e) == <<"caller", e>>
Event(e) == <<"event", e>>
Row(r) == <<"row", r>>
Holders == ({"caller", "event"} \X Events) \cup ({"row"} \X Rows)

Times == 1..MaxTime

TypeOK ==
    /\ ObjectTypeOK
    /\ dict \in [Holders -> Holders]
    /\ content \in [Holders -> Contents]
    /\ accepted \subseteq Events /\ bare \subseteq accepted /\ reached \subseteq accepted
    /\ of \in [Rows -> Events]
    /\ handed \in [Rows -> Contents] /\ stored \in [Rows -> Contents]
    /\ stamp \in [Rows -> Times \cup {0}]
    /\ begun \in [Sessions -> Times \cup {0}] /\ since \in [Sessions -> Times]
    /\ now \in Times

Init ==
    /\ ObjectInit
    /\ dict = [h \in Holders |-> h]
    /\ content = [h \in Holders |-> "fine"]
    /\ accepted = {} /\ bare = {} /\ reached = {}
    /\ of \in {[r \in Rows |-> e] : e \in Events}
    /\ handed = [r \in Rows |-> "fine"] /\ stored = handed
    /\ stamp = [r \in Rows |-> 0]
    /\ begun = [n \in Sessions |-> 0] /\ since = [n \in Sessions |-> 1]
    /\ now = 1

-----------------------------------------------------------------------------
(* dict(d): a dictionary of the holder's own with what is in d; without it *)
(* the holder refers to d itself.                                          *)
Copies(holder, d) ==
    /\ dict' = [dict EXCEPT ![holder] = holder]
    /\ content' = [content EXCEPT ![holder] = content[d]]

Shares(holder, d) ==
    /\ dict' = [dict EXCEPT ![holder] = d]
    /\ UNCHANGED content

(* Variant: the dictionary of the caller is passed on.                     *)
ConstructShared(e) ==
    /\ e \notin accepted
    /\ content[dict[Caller(e)]] = "fine"
    /\ accepted' = accepted \cup {e}
    /\ Shares(Event(e), dict[Caller(e)])
    /\ UNCHANGED <<object, bare, reached, row, time>>

(* record_audit_event; a forbidden context raises InvariantViolation.      *)
Construct(e) ==
    /\ e \notin accepted
    /\ content[dict[Caller(e)]] = "fine"
    /\ accepted' = accepted \cup {e}
    /\ Copies(Event(e), dict[Caller(e)])
    /\ UNCHANGED <<object, bare, reached, row, time>>

(* AuditEvent(...) itself, which does not copy.                            *)
ConstructBare(e) ==
    /\ e \notin accepted
    /\ content[dict[Caller(e)]] = "fine"
    /\ accepted' = accepted \cup {e}
    /\ bare' = bare \cup {e}
    /\ Shares(Event(e), dict[Caller(e)])
    /\ UNCHANGED <<object, reached, row, time>>

(* The caller puts something forbidden in its dictionary, or in that of    *)
(* the event: a frozen dataclass does not freeze what it refers to.        *)
Alter(holder) ==
    /\ content[dict[holder]] = "fine"
    /\ content' = [content EXCEPT ![dict[holder]] = "forbidden"]
    /\ UNCHANGED <<object, dict, accepted, bare, row, time>>

AlterCaller(e) == Alter(Caller(e)) /\ UNCHANGED reached
AlterEvent(e) == e \in accepted /\ Alter(Event(e)) /\ reached' = reached \cup {e}

Tick ==
    /\ now < MaxTime
    /\ now' = now + 1
    /\ UNCHANGED <<object, event, row, begun, since>>

-----------------------------------------------------------------------------
EnterBlock ==
    /\ Enter
    /\ since' = [since EXCEPT ![session'] = now]
    /\ UNCHANGED <<event, row, begun, now>>

(* Variant: context=event.context, without dict().                         *)
RecordShared(r, e) ==
    /\ e \in accepted
    /\ Add(r)
    /\ of' = [of EXCEPT ![r] = e]
    /\ handed' = [handed EXCEPT ![r] = content[dict[Event(e)]]]
    /\ Shares(Row(r), dict[Event(e)])
    /\ UNCHANGED <<accepted, bare, reached, stored, stamp, time>>

(* audit.record: one AuditEventRecord, added to the session.               *)
Record(r, e) ==
    /\ e \in accepted
    /\ Add(r)
    /\ of' = [of EXCEPT ![r] = e]
    /\ handed' = [handed EXCEPT ![r] = content[dict[Event(e)]]]
    /\ Copies(Row(r), dict[Event(e)])
    /\ UNCHANGED <<accepted, bare, reached, stored, stamp, time>>

Pending(n) == {r \in added[n] : stamp[r] = 0}

(* Variant: the sink makes an id for each row.                             *)
RefusedNever(n) == FALSE

(* The id of a row is the event's, so that the primary key refuses a       *)
(* second one, and waits for an uncommitted one.                           *)
Refused(n) == \E r \in Pending(n) :
    \E q \in (added[n] \cup durable) \ {r} : of[q] = of[r]
Waits(n) == \E r \in Pending(n), m \in Sessions \ {n} :
    \E q \in added[m] : stamp[q] # 0 /\ of[q] = of[r]
Accepts(n) == ~Refused(n) /\ ~Waits(n)

(* The transaction of a session begins with its first statement.           *)
Began(n) == IF begun[n] = 0 THEN now ELSE begun[n]

(* Variants: clock_timestamp(); a default evaluated on import.             *)
RecordedAtFlush(n) == now
RecordedAtImport(n) == 1

(* server_default now()                                                    *)
RecordedAt(n) == Began(n)

(* INSERT of what the session has pending.                                 *)
Inserted(n) ==
    /\ stamp' = [r \in Rows |-> IF r \in Pending(n) THEN RecordedAt(n) ELSE stamp[r]]
    /\ stored' = [r \in Rows |-> IF r \in Pending(n) THEN content[dict[Row(r)]] ELSE stored[r]]
    /\ UNCHANGED <<of, handed>>

Ends(n) ==
    /\ begun' = [begun EXCEPT ![n] = 0]
    /\ since' = [since EXCEPT ![n] = now]
    /\ UNCHANGED <<event, now>>

(* A query, before which the session flushes.                              *)
FlushAndQuery ==
    /\ Query
    /\ Accepts(session)
    /\ Inserted(session)
    /\ begun' = [begun EXCEPT ![session] = Began(session)]
    /\ UNCHANGED <<event, since, now>>

(* A query that fails after its flush, and a flush or a COMMIT that fails. *)
QueryFails ==
    /\ StatementFails
    /\ Accepts(session)
    /\ begun' = [begun EXCEPT ![session] = Began(session)]
    /\ UNCHANGED <<event, row, since, now>>

CallFails == FlushFails /\ UNCHANGED row /\ Ends(session)

(* commit() and rollback() inside the block.                               *)
CommitEarly == Checkpoint /\ Accepts(session) /\ Inserted(session) /\ Ends(session)
CommitEarlyPretending == CheckpointPretending /\ UNCHANGED row /\ Ends(session)
CommitEarlyUnacknowledged ==
    CheckpointUnacknowledged /\ Accepts(session) /\ Inserted(session) /\ Ends(session)
RollbackEarly == Rollback /\ UNCHANGED row /\ Ends(session)

(* The end of a block without exception, if the database agrees, if it     *)
(* answers by ROLLBACK or not at all; and an exception, of the block's or  *)
(* of the refused COMMIT.                                                  *)
LeaveCommitting == session # None /\ ExitClean /\ Accepts(session) /\ Inserted(session) /\ Ends(session)
LeavePretending == ExitPretending /\ UNCHANGED row /\ Ends(session)
LeaveUnacknowledged == ExitUnacknowledged /\ Accepts(session) /\ Inserted(session) /\ Ends(session)
LeaveRaising == session # None /\ ExitRaise /\ UNCHANGED row /\ Ends(session)

(* Variant: no block was entered.                                          *)
LeaveUnentered ==
    /\ session = None
    /\ depth' = depth - 1
    /\ UNCHANGED <<session, made, state, holding, added, trouble, staged, histories, nested, durable>>
    /\ UNCHANGED <<event, row, time>>

(* __exit__ where another exit has reset the session.                      *)
LeaveEmpty == session = None /\ (ExitClean \/ ExitRaise) /\ UNCHANGED <<event, row, time>>

CollectSession(n) == Collect(n) /\ Ends(n) /\ UNCHANGED row

Next ==
    \/ \E e \in Events : Construct(e) \/ ConstructBare(e) \/ AlterCaller(e) \/ AlterEvent(e)
    \/ \E r \in Rows, e \in Events : Record(r, e)
    \/ EnterBlock \/ FlushAndQuery \/ QueryFails \/ CallFails
    \/ CommitEarly \/ CommitEarlyPretending \/ CommitEarlyUnacknowledged \/ RollbackEarly
    \/ LeaveCommitting \/ LeavePretending \/ LeaveUnacknowledged \/ LeaveRaising \/ LeaveEmpty
    \/ \E n \in Sessions : CollectSession(n)
    \/ Tick

Spec == Init /\ [][Next]_vars

-----------------------------------------------------------------------------
(* audit_sink.py:28-29, "what is stored has to be what the caller          *)
(* asserted": a committed row has the context its event had when it was    *)
(* recorded, whatever was done to the event between that and the flush.    *)
StoredIsAsserted == \A r \in durable : stored[r] = handed[r]

(* models.py:63-64 and audit.py:137-142: what __post_init__ refuses is not *)
(* in the table, through whichever dictionary a caller tries, unless the   *)
(* caller reached into the event or bypassed record_audit_event.           *)
ValidatedIsStored ==
    \A r \in durable : of[r] \notin reached \cup bare => stored[r] = "fine"

(* sink.py:28: the identity of an event is made with the event, so that a  *)
(* unit of work tried again after a COMMIT that was not answered does not  *)
(* leave a second record of it.                                            *)
RecordedOnce == \A r, q \in durable : of[r] = of[q] => r = q

(* base.py:62-64: rows one transaction commits carry one timestamp.        *)
OneStampPerTransaction ==
    [][\A r, q \in durable' \ durable : stamp'[r] = stamp'[q]]_vars

(* models.py:40-43: recorded_at is a time between the beginning of what    *)
(* the commit ends and the commit.                                         *)
StampsLieInTheirUnit ==
    [][\A r \in durable' \ durable :
         session # None /\ stamp'[r] \in since[session]..now]_vars
=============================================================================
