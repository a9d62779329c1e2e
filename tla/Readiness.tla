------------------------------ MODULE Readiness ------------------------------
(***************************************************************************)
(* The readiness endpoint: GET /readyz asks check_connection, which takes  *)
(* a connection from the same pool as the units of work do.  The clients   *)
(* of the pool that are not probes stand for the units of work; they keep  *)
(* a connection as long as they like.                                      *)
(***************************************************************************)
EXTENDS ConnectionPool

CONSTANTS Probes    \* requests to /readyz, each repeated

ASSUME ProbesAssumption == Probes \subseteq Clients

Workers == Clients \ Probes

VARIABLES
    configured, \* whether a database URL was given, fixed at start-up
    answer,     \* what each probe was last told
    trouble,    \* history: probes during whose check the server was down or
                \* the connection they had was lost
    crowded     \* history: probes whose check found the pool exhausted

vars == <<server, slot, waiting, configured, answer, trouble, crowded>>

Asking == {p \in Probes : answer[p] = "asking"}

TypeOK ==
    /\ PoolTypeOK
    /\ configured \in BOOLEAN
    /\ answer \in [Probes -> {"none", "asking", "ok", "unavailable", "not_configured"}]
    /\ trouble \subseteq Probes
    /\ crowded \subseteq Probes

Init ==
    /\ PoolInit
    /\ configured \in BOOLEAN
    /\ answer = [p \in Probes |-> "none"]
    /\ trouble = {}
    /\ crowded = {}

-----------------------------------------------------------------------------
(* Without a database URL there is no engine and nothing to ask.           *)
NotConfigured(p) ==
    /\ ~configured
    /\ answer' = [answer EXCEPT ![p] = "not_configured"]
    /\ UNCHANGED <<poolVars, configured, trouble, crowded>>

(* engine.connect() *)
Ask(p) ==
    /\ configured
    /\ answer[p] # "asking"
    /\ Request(p)
    /\ answer' = [answer EXCEPT ![p] = "asking"]
    /\ trouble' = IF server = "down" THEN trouble \cup {p} ELSE trouble \ {p}
    /\ crowded' = crowded \ {p}
    /\ UNCHANGED configured

Connected(p) ==
    /\ \E s \in Slots : Grant(p, s)
    /\ UNCHANGED <<configured, answer, trouble, crowded>>

(* Variant: the connection is not closed.                                  *)
ConcludeUnclosed(p, told) ==
    /\ answer' = [answer EXCEPT ![p] = told]
    /\ UNCHANGED <<poolVars, configured, trouble, crowded>>

(* The check is over and the with block closes the connection it had.      *)
Conclude(p, told) ==
    /\ answer' = [answer EXCEPT ![p] = told]
    /\ slot' = Returned(p)
    /\ UNCHANGED <<server, waiting, configured, trouble, crowded>>

(* SELECT 1 is answered.                                                   *)
Answered(p) ==
    /\ HasLink(p, "live")
    /\ Conclude(p, "ok")

(* SELECT 1 fails: a SQLAlchemyError, hence False.                         *)
Unanswered(p) ==
    /\ HasLink(p, "dead")
    /\ Conclude(p, "unavailable")

(* Variant: only the failed query is caught, not the failed checkout.      *)
NotConnectedRaises(p) ==
    /\ (\E s \in Slots : ConnectFail(p, s)) \/ Timeout(p)
    /\ answer' = [answer EXCEPT ![p] = "raised"]
    /\ UNCHANGED <<configured, trouble, crowded>>

(* So is the failure to connect, and the pool's TimeoutError.              *)
NotConnected(p) ==
    /\ \/ \E s \in Slots : ConnectFail(p, s) /\ UNCHANGED crowded
       \/ Timeout(p) /\ crowded' = crowded \cup {p}
    /\ answer' = [answer EXCEPT ![p] = "unavailable"]
    /\ UNCHANGED <<configured, trouble>>

Check(p) == Connected(p) \/ Answered(p) \/ Unanswered(p) \/ NotConnected(p)

(* The units of work.                                                      *)
Work(w) ==
    /\ configured
    /\ Request(w) \/ Resolve(w) \/ Release(w)
    /\ UNCHANGED <<configured, answer, trouble, crowded>>

Elsewhere ==
    /\ Surroundings
    /\ trouble' = trouble \cup
           {p \in Asking : server' = "down" \/ HasLink(p, "dead")'}
    /\ UNCHANGED <<configured, answer, crowded>>

(* PlatformExtensions.shutdown, where an application is torn down: with    *)
(* nothing checked out, the idle connections are closed.  The engine can   *)
(* be used again.                                                          *)
Shutdown ==
    /\ configured
    /\ waiting = {} /\ Free = Slots
    /\ slot' = [s \in Slots |-> [owner |-> Nobody, link |-> "closed"]]
    /\ UNCHANGED <<server, waiting, configured, answer, trouble, crowded>>

Next ==
    \/ Shutdown
    \/ \E p \in Probes : NotConfigured(p) \/ Ask(p) \/ Check(p)
    \/ \E w \in Workers : Work(w)
    \/ Elsewhere

(* A check proceeds: the server answers a statement or the connection is   *)
(* found dead, and the timeouts of the pool run.  Units of work need not   *)
(* give anything back.                                                     *)
Spec ==
    /\ Init
    /\ [][Next]_vars
    /\ \A p \in Probes : WF_vars(Check(p))

-----------------------------------------------------------------------------
(* engine.py:65-70: a probe leaves nothing checked out behind it, whatever *)
(* it answers; polled for ever, it would otherwise drain the pool.         *)
ProbesLeaveNothing ==
    /\ \A s \in Slots : slot[s].owner \in Probes => slot[s].owner \in Asking
    /\ waiting \cap Probes \subseteq Asking

(* engine.py:59-70 with pool_pre_ping: 503 has a cause that existed during *)
(* the check.  A connection that died idle in the pool, or an outage that  *)
(* is over, takes no instance out of rotation.                             *)
NoFalseAlarm ==
    \A p \in Probes : answer[p] = "unavailable" => p \in trouble \cup crowded

(* health.py:36-43: the endpoint answers, also while the units of work     *)
(* hold every connection or the server is gone.                            *)
ProbesAreAnswered == \A p \in Probes : answer[p] = "asking" ~> answer[p] # "asking"

(* health.py:39: "Answers 503 when a configured dependency is              *)
(* unreachable"; engine.py:60: "whether the database currently answers".   *)
UnavailableMeansUnreachable ==
    \A p \in Probes : answer[p] = "unavailable" => p \in trouble
=============================================================================
