----------------------------- MODULE InlineTasks -----------------------------
(***************************************************************************)
(* Tasks dispatched inline: dispatch runs the handler at once, in the      *)
(* caller's thread, so that a handler's unit of work may be open inside    *)
(* its caller's, with a connection of its own from the same pool.          *)
(*                                                                         *)
(* A frame is one activation of the application's code: the use case a     *)
(* thread runs, the handler of the task it dispatches, the handler of the  *)
(* task that one dispatches.  Each frame opens at most one unit of work    *)
(* and dispatches at most once.  UnitOfWork has the units in full; here a  *)
(* unit is its flushed work, the row that work locks, its connection, and  *)
(* what a failed call has made of its session.  A frame flushes once, so   *)
(* that a transaction that waits for a row has locked none: what can be    *)
(* seen here is the waiting PostgreSQL cannot see, through suspended       *)
(* frames; the cycles it breaks are in UnitOfWork.                         *)
(***************************************************************************)
EXTENDS ConnectionPool

CONSTANTS
    Threads,
    MaxDepth,   \* bound: of each thread, how deep its tasks dispatch tasks
    Names,      \* the names of tasks
    Contested,  \* the rows that several frames write
    Own,        \* stands for the rows that only the one frame writes
    Strict      \* InlineTaskDispatcher(strict=...)

ASSUME MaxDepthAssumption == MaxDepth \in [Threads -> Nat \ {0}]
ASSUME StrictAssumption == Strict \in BOOLEAN
ASSUME FramesAssumption == Clients = UNION {{t} \X (1..MaxDepth[t]) : t \in Threads}

VARIABLES
    handlers,   \* the names that have a handler
    at,         \* where each frame is, relative to its with block
    target,     \* of each frame inside its block: the row it writes
    wrote,      \* frames whose open transaction has work in it
    poisoned,   \* frames whose open session refuses to go on
    aborted,    \* frames whose open transaction PostgreSQL has given up
    raising,    \* threads with an exception on its way up
    durable,    \* frames whose work is committed
    caught,     \* history: frames that swallowed an exception
    worked,     \* history: frames that flushed work
    sent        \* history: where the caller was when a frame was dispatched

unitVars == <<target, wrote, poisoned, aborted, durable, worked>>
vars == <<server, slot, waiting, handlers, at, target, wrote, poisoned, aborted, raising,
          durable, caught, worked, sent>>

Frames == Clients
Inside == {"inside", "flushing"}
Running == {"before", "after"} \cup Inside

TypeOK ==
    /\ PoolTypeOK
    /\ handlers \subseteq Names
    /\ at \in [Frames -> {"unused", "returned", "raised", "killed"} \cup Running]
    /\ raising \subseteq Threads
    /\ target \in [Frames -> Contested \cup {Own}]
    /\ wrote \subseteq Frames /\ poisoned \subseteq Frames /\ aborted \subseteq Frames
    /\ durable \subseteq Frames
    /\ caught \subseteq Frames /\ worked \subseteq Frames
    /\ sent \in [Frames -> {"unused", "before", "inside", "after"}]

Init ==
    /\ PoolInit
    /\ handlers = {}
    /\ at = [f \in Frames |-> "unused"]
    /\ target = [f \in Frames |-> Own]
    /\ wrote = {} /\ poisoned = {} /\ aborted = {} /\ raising = {} /\ durable = {}
    /\ caught = {} /\ worked = {}
    /\ sent = [f \in Frames |-> "unused"]

-----------------------------------------------------------------------------
Callee(f) == <<f[1], f[2] + 1>>

Suspended(f) == Callee(f) \in Frames /\ at[Callee(f)] \in Running

(* The frame whose code the thread is executing; going on, or unwinding.   *)
Top(f) == at[f] \in Running /\ ~Suspended(f)
Goes(f) == Top(f) /\ f[1] \notin raising
Unwinds(f) == Top(f) /\ f[1] \in raising

Move(f, place) == at' = [at EXCEPT ![f] = place]

(* register(): a name that has a handler keeps it, the second is refused.  *)
Register(n) ==
    /\ n \notin handlers
    /\ handlers' = handlers \cup {n}
    /\ UNCHANGED <<poolVars, at, unitVars, raising, caught, sent>>

(* A thread starts its use case. *)
Start(f) ==
    /\ f[2] = 1
    /\ at[f] = "unused"
    /\ Move(f, "before")
    /\ UNCHANGED <<poolVars, handlers, unitVars, raising, caught, sent>>

Raise(f) ==
    /\ Goes(f)
    /\ at[f] # "flushing"
    /\ f \notin caught
    /\ raising' = raising \cup {f[1]}
    /\ UNCHANGED <<poolVars, handlers, at, unitVars, caught, sent>>

-----------------------------------------------------------------------------
(* dispatch(name, payload)                                                 *)

(* A payload that may not be carried, or a strict dispatcher that knows no *)
(* handler: InvariantViolation.  (One that is not strict returns, and      *)
(* nothing has happened.)                                                  *)
DispatchRefused(f, n, sensitive) ==
    /\ Goes(f)
    /\ at[f] # "flushing"
    /\ sensitive \/ (n \notin handlers /\ Strict)
    /\ f \notin caught
    /\ raising' = raising \cup {f[1]}
    /\ UNCHANGED <<poolVars, handlers, at, unitVars, caught, sent>>

(* Variant: a task may be dispatched in the middle of a flush.             *)
DispatchAnywhere(f, n) ==
    /\ Goes(f)
    /\ n \in handlers
    /\ Callee(f) \in Frames
    /\ at[Callee(f)] = "unused"
    /\ Move(Callee(f), "before")
    /\ sent' = [sent EXCEPT ![Callee(f)] = at[f]]
    /\ UNCHANGED <<poolVars, handlers, unitVars, raising, caught>>

(* The handler is entered; the caller stays where it is.                   *)
Dispatch(f, n) ==
    /\ Goes(f)
    /\ at[f] # "flushing"
    /\ n \in handlers
    /\ Callee(f) \in Frames
    /\ at[Callee(f)] = "unused"
    /\ Move(Callee(f), "before")
    /\ sent' = [sent EXCEPT ![Callee(f)] = at[f]]
    /\ UNCHANGED <<poolVars, handlers, unitVars, raising, caught>>

(* The handler, or the use case, returns: task.completed.                  *)
Finish(f) ==
    /\ Goes(f)
    /\ at[f] \in {"before", "after"}
    /\ Move(f, "returned")
    /\ UNCHANGED <<poolVars, handlers, unitVars, raising, caught, sent>>

(* Variant: the failure of a task is logged and not raised again.          *)
UnwindLogged(f) ==
    /\ Unwinds(f)
    /\ at[f] \in {"before", "after"}
    /\ Move(f, "raised")
    /\ raising' = raising \ {f[1]}
    /\ UNCHANGED <<poolVars, handlers, unitVars, caught, sent>>

(* The exception leaves the handler and dispatch raises it again in the    *)
(* caller: task.failed.                                                    *)
Unwind(f) ==
    /\ Unwinds(f)
    /\ at[f] \in {"before", "after"}
    /\ Move(f, "raised")
    /\ raising' = IF f[2] = 1 THEN raising \ {f[1]} ELSE raising
    /\ UNCHANGED <<poolVars, handlers, unitVars, caught, sent>>

(* The frame has a try of its own around what raised, inside its block or  *)
(* around it.  (Bound: it swallows once, and raises nothing after that of  *)
(* its own accord.)                                                        *)
Catch(f) ==
    /\ Unwinds(f)
    /\ f \notin caught
    /\ caught' = caught \cup {f}
    /\ raising' = raising \ {f[1]}
    /\ UNCHANGED <<poolVars, handlers, at, unitVars, sent>>

-----------------------------------------------------------------------------
(* The frame's unit of work.                                               *)

Enter(f) ==
    /\ Goes(f)
    /\ at[f] = "before"
    /\ Move(f, "inside")
    /\ UNCHANGED <<poolVars, handlers, unitVars, raising, caught, sent>>

(* Work that needs the database, in a row of its own or in one that others *)
(* write too.                                                              *)
Flush(f) ==
    /\ Goes(f)
    /\ at[f] = "inside"
    /\ f \notin worked
    /\ Move(f, "flushing")
    /\ \E row \in Contested \cup {Own} : target' = [target EXCEPT ![f] = row]
    /\ UNCHANGED <<poolVars, handlers, wrote, poisoned, aborted, durable, worked,
                   raising, caught, sent>>

(* PostgreSQL keeps a row that a transaction has written for that          *)
(* transaction, while its connection lives.  There is no lock_timeout and  *)
(* no statement_timeout.                                                   *)
Keeps(g, f) ==
    /\ g # f /\ g \in wrote /\ HasLink(g, "live")
    /\ target[g] = target[f] /\ target[f] \in Contested

(* f is in a statement that waits for a row of g.                          *)
WaitsFor(f, g) ==
    /\ at[f] = "flushing"
    /\ f \notin poisoned \cup aborted
    /\ HasLink(f, "live")
    /\ Keeps(g, f)

Blocked(f) == \E g \in Frames : WaitsFor(f, g)

(* A session that had failed refuses, or PostgreSQL does for a transaction *)
(* it has given up; a statement finds the link dead; no connection could   *)
(* be had.  The session is poisoned, the call raises.                      *)
FlushFails(f) ==
    /\ Goes(f)
    /\ at[f] = "flushing"
    /\ \/ f \in poisoned \cup aborted /\ UNCHANGED poolVars
       \/ HasLink(f, "dead") /\ UNCHANGED poolVars
       \/ \E s \in Slots : ConnectFail(f, s)
       \/ Timeout(f)
    /\ Move(f, "inside")
    /\ poisoned' = poisoned \cup {f}
    /\ aborted' = aborted \ {f}
    /\ wrote' = wrote \ {f}
    /\ raising' = raising \cup {f[1]}
    /\ UNCHANGED <<handlers, target, durable, worked, caught, sent>>

(* A statement fails on a live link, one of the flush or one of a query:   *)
(* the work is lost, the call raises.  After a query the session does not  *)
(* know.  (Bound: as for Raise.)                                           *)
StatementFails(f) ==
    /\ Goes(f)
    /\ at[f] \in Inside
    /\ HasLink(f, "live")
    /\ ~Blocked(f)
    /\ f \notin poisoned \cup aborted \cup caught
    /\ Move(f, "inside")
    /\ \/ poisoned' = poisoned \cup {f} /\ UNCHANGED aborted
       \/ aborted' = aborted \cup {f} /\ UNCHANGED poisoned
    /\ wrote' = wrote \ {f}
    /\ raising' = raising \cup {f[1]}
    /\ UNCHANGED <<poolVars, handlers, target, durable, worked, caught, sent>>

Checkout(f) ==
    /\ Goes(f)
    /\ at[f] = "flushing"
    /\ f \notin poisoned \cup aborted
    /\ Request(f)
    /\ UNCHANGED <<handlers, at, unitVars, raising, caught, sent>>

Connected(f) ==
    /\ \E s \in Slots : Grant(f, s)
    /\ UNCHANGED <<handlers, at, unitVars, raising, caught, sent>>

Flushed(f) ==
    /\ Goes(f)
    /\ at[f] = "flushing"
    /\ f \notin poisoned \cup aborted
    /\ HasLink(f, "live")
    /\ ~Blocked(f)
    /\ Move(f, "inside")
    /\ wrote' = wrote \cup {f}
    /\ worked' = worked \cup {f}
    /\ UNCHANGED <<poolVars, handlers, target, poisoned, aborted, raising, durable, caught, sent>>

(* COMMIT fails.                                                           *)
Lost(f) == f \in poisoned \/ HasLink(f, "dead")

(* Variant: the session is rolled back and not closed. *)
RollbackOnly(f) ==
    /\ wrote' = wrote \ {f}
    /\ poisoned' = poisoned \ {f}
    /\ aborted' = aborted \ {f}
    /\ target' = [target EXCEPT ![f] = Own]
    /\ UNCHANGED slot

(* close(), after whatever became of the transaction.                      *)
Close(f) ==
    /\ wrote' = wrote \ {f}
    /\ poisoned' = poisoned \ {f}
    /\ aborted' = aborted \ {f}
    /\ target' = [target EXCEPT ![f] = Own]
    /\ slot' = Returned(f)

(* Variant: __exit__ suppresses its exception. *)
LeaveSuppressing(f) ==
    /\ Goes(f)
    /\ at[f] = "inside"
    /\ Move(f, "after")
    /\ durable' = IF Lost(f) THEN durable ELSE durable \cup (wrote \cap {f})
    /\ Close(f)
    /\ UNCHANGED <<server, waiting, handlers, worked, raising, caught, sent>>

(* __exit__ without an exception: commit, then close in any case; what     *)
(* commit raises comes out of the block.  In a transaction PostgreSQL has  *)
(* given up, COMMIT rolls back and raises nothing.                         *)
Leave(f) ==
    /\ Goes(f)
    /\ at[f] = "inside"
    /\ Move(f, "after")
    /\ durable' = IF Lost(f) THEN durable ELSE durable \cup (wrote \cap {f})
    /\ raising' = IF Lost(f) THEN raising \cup {f[1]} ELSE raising
    /\ Close(f)
    /\ UNCHANGED <<server, waiting, handlers, worked, caught, sent>>

(* __exit__ with an exception: rollback, then close in any case.           *)
LeaveRaising(f) ==
    /\ Unwinds(f)
    /\ at[f] = "inside"
    /\ Move(f, "after")
    /\ Close(f)
    /\ UNCHANGED <<server, waiting, handlers, durable, worked, raising, caught, sent>>

-----------------------------------------------------------------------------
(* A task dies with the process. *)
Kill ==
    /\ \E f \in Frames : at[f] \in Running
    /\ ProcessEnds
    /\ at' = [f \in Frames |-> IF at[f] \in Running THEN "killed" ELSE at[f]]
    /\ handlers' = {}
    /\ target' = [f \in Frames |-> Own]
    /\ wrote' = {} /\ poisoned' = {} /\ aborted' = {} /\ raising' = {}
    /\ UNCHANGED <<durable, worked, caught, sent>>

Code(f) ==
    \/ Raise(f) \/ Finish(f) \/ Unwind(f) \/ Catch(f)
    \/ \E n \in Names : \/ Dispatch(f, n)
                        \/ \E sensitive \in BOOLEAN : DispatchRefused(f, n, sensitive)
    \/ Enter(f) \/ Leave(f) \/ LeaveRaising(f)
    \/ Flush(f) \/ Checkout(f) \/ Connected(f) \/ Flushed(f) \/ FlushFails(f)
    \/ StatementFails(f)

Elsewhere ==
    /\ Surroundings
    /\ UNCHANGED <<handlers, at, unitVars, raising, caught, sent>>

Next ==
    \/ \E n \in Names : Register(n)
    \/ \E f \in Frames : Start(f) \/ Code(f)
    \/ Elsewhere
    \/ Kill

(* A thread in the application's code goes on: that code is finite, and    *)
(* the checkouts it waits in are answered (ConnectionPool).                *)
Spec ==
    /\ Init
    /\ [][Next]_vars
    /\ \A t \in Threads : WF_vars(\E d \in 1..MaxDepth[t] : Code(<<t, d>>))

-----------------------------------------------------------------------------
Caller(f) == <<f[1], f[2] - 1>>

Handling == {f \in Frames : f[2] > 1}

(* unit_of_work.py:70-72 with inline.py:70-76: an exception that unwinds   *)
(* several frames closes the unit of each; only frames inside their block  *)
(* have a connection, suspended callers included.                          *)
OnlyInsideHolds ==
    /\ \A s \in Slots : slot[s].owner # Nobody => at[slot[s].owner] \in Inside
    /\ \A f \in waiting : at[f] = "flushing"

(* inline.py:73-76: "the caller must see the failure".  A handler that     *)
(* raised has made its caller raise or swallow, or is about to; a caller   *)
(* that dispatched it inside its block and committed has swallowed.        *)
FailureIsSeen == \A f \in Handling :
    at[f] = "raised" =>
        \/ Caller(f) \in caught
        \/ at[Caller(f)] \in {"raised", "killed"}
        \/ at[Caller(f)] \in Running /\ f[1] \in raising

(* task_dispatcher.py:14: a task dispatched after the block was left is    *)
(* justified: its caller's work is durable when the task's is, unless the  *)
(* caller swallowed an exception and went on regardless.                   *)
LateTasksAreJustified == \A f \in Handling :
    /\ f \in durable
    /\ sent[f] = "after"
    /\ Caller(f) \in worked \ caught
    => Caller(f) \in durable

(* Threads that wait for rows of each other, or one for a row of its own   *)
(* suspended caller.  A suspended frame is in no statement, so PostgreSQL  *)
(* sees no cycle.                                                          *)
Entangled(t) == \E S \in SUBSET Threads :
    /\ t \in S
    /\ \A u \in S : \E f, g \in Frames : f[1] = u /\ g[1] \in S /\ WaitsFor(f, g)

(* inline.py:70-71 with engine.py:33-42: callers hold their connection and *)
(* the rows they wrote while their handlers want some.  For a connection   *)
(* they wait no longer than pool_timeout; every use case ends, unless it   *)
(* stays entangled in rows, which nothing bounds.                          *)
ThreadsEnd == \A t \in Threads :
    at[<<t, 1>>] \in Running ~> (at[<<t, 1>>] \notin Running \/ []Entangled(t))

(* task_dispatcher.py:8-14: "enforced here: [...] Dispatch happens after   *)
(* the transaction that justifies it commits."  A task dispatched inside   *)
(* the block stays done when its caller then raises.                       *)
TasksAreJustified == \A f \in Handling :
    /\ f \in durable
    /\ Caller(f) \in worked
    /\ at[Caller(f)] \in {"returned", "raised"}
    => Caller(f) \in durable
=============================================================================
