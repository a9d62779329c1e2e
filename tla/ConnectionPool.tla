--------------------------- MODULE ConnectionPool ---------------------------
(***************************************************************************)
(* The SQLAlchemy engine that build_engine configures: a pool of at most   *)
(* PoolSize connections (max_overflow=0) in one process, and the database  *)
(* server they lead to.  A client is whatever checks a connection out: a   *)
(* unit of work, or the probe of the readiness endpoint.                   *)
(*                                                                         *)
(* The pool itself is SQLAlchemy's QueuePool, which is not in this         *)
(* repository; it is modelled from the arguments engine.py gives it.       *)
(* engine.dispose() is not modelled here (see README).                     *)
(***************************************************************************)
EXTENDS Integers

CONSTANTS
    Clients,    \* what checks connections out
    PoolSize,   \* settings.database_pool_size, Field(ge=1, le=50)
    Nobody      \* the owner of a slot that is not checked out

ASSUME PoolSizeAssumption == PoolSize \in 1..50
ASSUME NobodyAssumption == Nobody \notin Clients

VARIABLES
    server,     \* whether the database server accepts connections
    slot,       \* each place of the pool: who has it, what its link is worth
    waiting     \* the clients blocked in checkout

poolVars == <<server, slot, waiting>>

Slots == 1..PoolSize

(* "closed": no connection yet, or it was invalidated.  "dead": a socket   *)
(* whose other end is gone, which nobody has noticed.                      *)
Links == {"closed", "live", "dead"}

PoolTypeOK ==
    /\ server \in {"up", "down"}
    /\ slot \in [Slots -> [owner : Clients \cup {Nobody}, link : Links]]
    /\ waiting \subseteq Clients

Free == {s \in Slots : slot[s].owner = Nobody}

Holds(c) == \E s \in Slots : slot[s].owner = c

HasLink(c, link) == \E s \in Slots : slot[s] = [owner |-> c, link |-> link]

(* Creating the engine opens no connection. *)
PoolInit ==
    /\ server \in {"up", "down"}
    /\ slot = [s \in Slots |-> [owner |-> Nobody, link |-> "closed"]]
    /\ waiting = {}

-----------------------------------------------------------------------------
(* One checkout.                                                           *)

(* Variant: a client asks although it has a connection.                    *)
RequestAgain(c) ==
    /\ c \notin waiting
    /\ waiting' = waiting \cup {c}
    /\ UNCHANGED <<server, slot>>

Request(c) ==
    /\ c \notin waiting
    /\ ~Holds(c)
    /\ waiting' = waiting \cup {c}
    /\ UNCHANGED <<server, slot>>

(* Variant: no pool_pre_ping, an idle link is handed out as it is.         *)
GrantUnchecked(c, s) ==
    /\ c \in waiting
    /\ s \in Free
    /\ server = "up" \/ slot[s].link # "closed"
    /\ slot' = [slot EXCEPT ![s] =
                   [owner |-> c,
                    link  |-> IF slot[s].link = "closed" THEN "live" ELSE slot[s].link]]
    /\ waiting' = waiting \ {c}
    /\ UNCHANGED server

(* pool_pre_ping and pool_recycle: whatever the idle link was worth, the   *)
(* client gets one that just answered, a new one if it has to be.          *)
Grant(c, s) ==
    /\ c \in waiting
    /\ s \in Free
    /\ server = "up"
    /\ slot' = [slot EXCEPT ![s] = [owner |-> c, link |-> "live"]]
    /\ waiting' = waiting \ {c}
    /\ UNCHANGED server

(* The ping fails or the connect does, within connect_timeout: the place   *)
(* goes back empty and the client gets OperationalError.                   *)
ConnectFail(c, s) ==
    /\ c \in waiting
    /\ s \in Free
    /\ server = "down"
    /\ slot' = [slot EXCEPT ![s] = [owner |-> Nobody, link |-> "closed"]]
    /\ waiting' = waiting \ {c}
    /\ UNCHANGED server

(* Variant: no pool_timeout.                                               *)
TimeoutNever(c) == FALSE

(* pool_timeout: every place stayed taken; the client gets TimeoutError.   *)
Timeout(c) ==
    /\ c \in waiting
    /\ Free = {}
    /\ waiting' = waiting \ {c}
    /\ UNCHANGED <<server, slot>>

(* The pool after c gave back what it held; a dead link is discarded when  *)
(* the reset on return fails, a live one stays open in the pool.           *)
Returned(c) ==
    [s \in Slots |->
        IF slot[s].owner # c THEN slot[s]
        ELSE [owner |-> Nobody,
              link  |-> IF slot[s].link = "live" THEN "live" ELSE "closed"]]

Release(c) ==
    /\ Holds(c)
    /\ slot' = Returned(c)
    /\ UNCHANGED <<server, waiting>>

Resolve(c) ==
    \/ \E s \in Slots : Grant(c, s) \/ ConnectFail(c, s)
    \/ Timeout(c)

-----------------------------------------------------------------------------
(* What happens to the process and to the server.                          *)

Severed(S) == [s \in Slots |-> IF s \in S /\ slot[s].link = "live"
                               THEN [owner |-> slot[s].owner, link |-> "dead"]
                               ELSE slot[s]]

Outage ==
    /\ server = "up"
    /\ server' = "down"
    /\ slot' = Severed(Slots)
    /\ UNCHANGED waiting

Recover ==
    /\ server = "down"
    /\ server' = "up"
    /\ UNCHANGED <<slot, waiting>>

(* One connection goes: an idle one closed by a pooler between two         *)
(* invocations, or one in use.                                             *)
Drop(s) ==
    /\ slot[s].link = "live"
    /\ slot' = Severed({s})
    /\ UNCHANGED <<server, waiting>>

(* The platform ends the process; the server notices and aborts.           *)
ProcessEnds ==
    /\ slot' = [s \in Slots |-> [owner |-> Nobody, link |-> "closed"]]
    /\ waiting' = {}
    /\ UNCHANGED server

Surroundings ==
    \/ Outage
    \/ Recover
    \/ \E s \in Slots : Drop(s)

PoolNext ==
    \/ \E c \in Clients : Request(c) \/ Resolve(c) \/ Release(c)
    \/ Surroundings
    \/ ProcessEnds

-----------------------------------------------------------------------------
(* A client has at most one connection, and none while it still asks for   *)
(* one: a second checkout by the same session would split its transaction  *)
(* over two connections.                                                   *)
OneConnectionEach ==
    \A s \in Slots : slot[s].owner # Nobody =>
        /\ slot[s].owner \notin waiting
        /\ \A t \in Slots : slot[t].owner = slot[s].owner => t = s
=============================================================================
