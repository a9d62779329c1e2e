--------------------------- MODULE ReadinessProofs ---------------------------
(***************************************************************************)
(* What holds of the readiness endpoint for any number of probes and       *)
(* units of work, and any size of the pool they share.                     *)
(***************************************************************************)
EXTENDS Readiness, PoolProofs

(* Who waits for a connection has none.                                    *)
WaitersHoldNothing == \A c \in waiting : ~Holds(c)

(* Without a database nobody asks it.                                      *)
NothingToAsk == configured \/ Asking = {}

(* Trouble during a check is noticed for that check.                       *)
TroubleIsKnown == \A p \in Asking :
    server = "down" \/ HasLink(p, "dead") => p \in trouble

IInv ==
    /\ TypeOK /\ ProbesLeaveNothing /\ NoFalseAlarm
    /\ WaitersHoldNothing /\ NothingToAsk /\ TroubleIsKnown

-----------------------------------------------------------------------------
(* The steps of a probe.                                                   *)

LEMMA NotConfiguredKeeps ==
    ASSUME IInv, NEW p \in Probes, NotConfigured(p)
    PROVE  IInv'
  <1> USE DEF IInv, TypeOK
  <1>1. /\ Asking = {} /\ UNCHANGED <<poolVars, configured, trouble, crowded>>
        /\ answer' = [answer EXCEPT ![p] = "not_configured"]
    BY DEF NotConfigured, NothingToAsk
  <1>2. TypeOK' /\ Asking' = {} /\ NothingToAsk'
    BY <1>1 DEF Asking, poolVars, PoolTypeOK, NothingToAsk
  <1>3. ProbesLeaveNothing' /\ WaitersHoldNothing' /\ TroubleIsKnown'
    BY <1>1, <1>2 DEF ProbesLeaveNothing, WaitersHoldNothing, Holds, TroubleIsKnown, poolVars
  <1>4. NoFalseAlarm'
    BY <1>1 DEF NoFalseAlarm
  <1>5. QED
    BY <1>2, <1>3, <1>4

LEMMA AskKeeps ==
    ASSUME IInv, NEW p \in Probes, Ask(p)
    PROVE  IInv'
  <1> USE DEF IInv, TypeOK
  <1>1. /\ configured /\ ~Holds(p) /\ waiting' = waiting \cup {p}
        /\ UNCHANGED <<server, slot, configured>>
        /\ answer' = [answer EXCEPT ![p] = "asking"]
        /\ trouble' = IF server = "down" THEN trouble \cup {p} ELSE trouble \ {p}
        /\ crowded' = crowded \ {p}
    BY DEF Ask, Request
  <1>2. TypeOK' /\ NothingToAsk'
    BY <1>1, ProbesAssumption DEF PoolTypeOK, NothingToAsk
  <1>3. ProbesLeaveNothing' /\ WaitersHoldNothing'
    BY <1>1 DEF ProbesLeaveNothing, WaitersHoldNothing, Holds, Asking
  <1>4. TroubleIsKnown'
    BY <1>1 DEF TroubleIsKnown, Asking, HasLink, Holds, PoolTypeOK
  <1>5. NoFalseAlarm'
    BY <1>1 DEF NoFalseAlarm
  <1>6. QED
    BY <1>2, <1>3, <1>4, <1>5

LEMMA ConnectedKeeps ==
    ASSUME IInv, NEW p \in Probes, Connected(p)
    PROVE  IInv'
  <1> USE DEF IInv, TypeOK
  <1>1. UNCHANGED <<configured, answer, trouble, crowded>>
    BY DEF Connected
  <1>2. PICK s \in Slots : Grant(p, s)
    BY DEF Connected
  <1>3. /\ PoolTypeOK' /\ p \in waiting /\ waiting' = waiting \ {p} /\ server' = server
        /\ slot'[s] = [owner |-> p, link |-> "live"]
        /\ \A t \in Slots : t # s => slot'[t] = slot[t]
    BY <1>2, GrantFacts, ProbesAssumption DEF Grant
  <1>4. ProbesLeaveNothing'
    BY <1>1, <1>3 DEF ProbesLeaveNothing, Asking
  <1>5. WaitersHoldNothing'
    BY <1>3 DEF WaitersHoldNothing, Holds
  <1>6. \A q \in Probes : HasLink(q, "dead")' => HasLink(q, "dead")
    BY <1>3 DEF HasLink
  <1>7. TroubleIsKnown' /\ NoFalseAlarm' /\ NothingToAsk'
    BY <1>1, <1>3, <1>6 DEF TroubleIsKnown, NoFalseAlarm, NothingToAsk, Asking
  <1>8. QED
    BY <1>1, <1>3, <1>4, <1>5, <1>7

LEMMA ConcludeKeeps ==
    ASSUME IInv, NEW p \in Probes, Answered(p) \/ Unanswered(p)
    PROVE  IInv'
  <1> USE DEF IInv, TypeOK
  <1>1. PICK told \in {"ok", "unavailable"} :
           answer' = [answer EXCEPT ![p] = told]
           /\ (told = "unavailable" => HasLink(p, "dead"))
    BY DEF Answered, Unanswered, Conclude
  <1>2. /\ Holds(p) /\ slot' = Returned(p)
        /\ UNCHANGED <<server, waiting, configured, trouble, crowded>>
    BY DEF Answered, Unanswered, Conclude, HasLink, Holds
  <1>3. /\ slot' \in [Slots -> [owner : Clients \cup {Nobody}, link : Links]]
        /\ \A s \in Slots : slot'[s].owner # p
        /\ \A s \in Slots : slot'[s].owner \in {slot[s].owner, Nobody}
        /\ \A s \in Slots : slot'[s] = slot[s] \/ slot'[s].owner = Nobody
    BY <1>2, ReturnedFacts, ProbesAssumption
  <1>4. p \notin waiting /\ p \in Asking /\ Nobody \notin Probes
    BY <1>2, NobodyAssumption, ProbesAssumption
    DEF WaitersHoldNothing, ProbesLeaveNothing, Holds
  <1>5. ProbesLeaveNothing'
    BY <1>1, <1>2, <1>3, <1>4 DEF ProbesLeaveNothing, Asking
  <1>6. WaitersHoldNothing'
    BY <1>2, <1>3, NobodyAssumption DEF WaitersHoldNothing, Holds, PoolTypeOK
  <1>7. \A q \in Probes : HasLink(q, "dead")' => HasLink(q, "dead")
    BY <1>3, <1>4 DEF HasLink
  <1>8. TroubleIsKnown' /\ NothingToAsk'
    BY <1>1, <1>2, <1>7 DEF TroubleIsKnown, NothingToAsk, Asking
  <1>9. NoFalseAlarm'
    BY <1>1, <1>2, <1>4 DEF NoFalseAlarm, TroubleIsKnown
  <1>10. QED
    BY <1>1, <1>2, <1>3, <1>5, <1>6, <1>8, <1>9 DEF PoolTypeOK

LEMMA NotConnectedKeeps ==
    ASSUME IInv, NEW p \in Probes, NotConnected(p)
    PROVE  IInv'
  <1> USE DEF IInv, TypeOK
  <1>1. /\ answer' = [answer EXCEPT ![p] = "unavailable"]
        /\ UNCHANGED <<configured, trouble>>
        /\ crowded' \in {crowded, crowded \cup {p}}
    BY DEF NotConnected
  <1>2. /\ PoolTypeOK' /\ p \in waiting /\ waiting' = waiting \ {p} /\ server' = server
        /\ \A t \in Slots : slot'[t].owner = slot[t].owner
        /\ \A t \in Slots : slot[t].owner # Nobody => slot'[t] = slot[t]
    BY RefusalFacts, ProbesAssumption DEF NotConnected, ConnectFail, Timeout
  <1>3. p \in Asking /\ ~Holds(p) /\ Nobody \notin Probes
    BY <1>2, NobodyAssumption, ProbesAssumption DEF ProbesLeaveNothing, WaitersHoldNothing
  <1>4. ProbesLeaveNothing' /\ WaitersHoldNothing'
    BY <1>1, <1>2, <1>3 DEF ProbesLeaveNothing, WaitersHoldNothing, Holds, Asking
  <1>5. \A q \in Probes : HasLink(q, "dead")' => HasLink(q, "dead")
    BY <1>2, <1>3 DEF HasLink
  <1>6. TroubleIsKnown' /\ NothingToAsk'
    BY <1>1, <1>2, <1>5 DEF TroubleIsKnown, NothingToAsk, Asking
  <1>7. p \in trouble \cup crowded'
    BY <1>3 DEF NotConnected, ConnectFail, Timeout, TroubleIsKnown
  <1>8. NoFalseAlarm'
    BY <1>1, <1>7 DEF NoFalseAlarm
  <1>9. QED
    BY <1>1, <1>2, <1>4, <1>6, <1>8

-----------------------------------------------------------------------------
(* The steps of the others.                                                *)

LEMMA WorkKeeps ==
    ASSUME IInv, NEW w \in Workers, Work(w)
    PROVE  IInv'
  <1> USE DEF IInv, TypeOK
  <1>1. UNCHANGED <<configured, answer, trouble, crowded>> /\ w \in Clients /\ w \notin Probes
    BY DEF Work, Workers
  <1>2. PoolTypeOK' /\ server' = server
    <2>1. PoolNext
      BY <1>1 DEF Work, PoolNext
    <2>2. server' = server
      BY DEF Work, Request, Release, Resolve, Grant, ConnectFail, Timeout
    <2>3. QED
      BY <2>1, <2>2, PoolStepTypes
  <1>3. ASSUME NEW s \in Slots
        PROVE  \/ slot'[s] = slot[s]
               \/ slot'[s].owner = w /\ w \in waiting /\ w \notin waiting'
               \/ slot'[s].owner = Nobody
    <2>1. CASE Request(w) \/ Timeout(w)
      BY <2>1 DEF Request, Timeout
    <2>2. CASE Release(w)
      BY <1>1, <2>2, ReturnedFacts DEF Release
    <2>3. CASE \E t \in Slots : Grant(w, t)
      <3>1. PICK t \in Slots : Grant(w, t)
        BY <2>3
      <3>2. /\ slot'[t].owner = w /\ w \in waiting /\ w \notin waiting'
            /\ s # t => slot'[s] = slot[s]
        BY <1>1, <3>1 DEF Grant, PoolTypeOK
      <3>3. QED
        BY <3>2
    <2>4. CASE \E t \in Slots : ConnectFail(w, t)
      BY <2>4 DEF ConnectFail, PoolTypeOK
    <2>5. QED
      BY <2>1, <2>2, <2>3, <2>4 DEF Work, Resolve
  <1>4. waiting' \subseteq waiting \cup {w} /\ (w \in waiting' /\ w \notin waiting => ~Holds(w))
        /\ (w \in waiting /\ w \in waiting' => Release(w))
    BY DEF Work, Request, Resolve, Grant, ConnectFail, Timeout, Release
  <1>5. Nobody \notin Clients
    BY NobodyAssumption
  <1>6. ProbesLeaveNothing'
    BY <1>1, <1>3, <1>4, <1>5, ProbesAssumption DEF ProbesLeaveNothing, Asking
  <1>7. WaitersHoldNothing'
    <2>1. ASSUME NEW c \in waiting', NEW s \in Slots, slot'[s].owner = c PROVE FALSE
      <3>1. c \in Clients /\ slot[s].owner = c
        BY <1>2, <1>3, <1>5, <2>1 DEF PoolTypeOK
      <3>2. c \in waiting \/ ~Holds(c)
        BY <1>4
      <3>3. QED
        BY <3>1, <3>2 DEF WaitersHoldNothing, Holds
    <2>2. QED
      BY <2>1 DEF WaitersHoldNothing, Holds
  <1>8. \A q \in Probes : HasLink(q, "dead")' => HasLink(q, "dead")
    BY <1>1, <1>3, <1>5, ProbesAssumption DEF HasLink
  <1>9. TroubleIsKnown' /\ NoFalseAlarm' /\ NothingToAsk'
    BY <1>1, <1>2, <1>8 DEF TroubleIsKnown, NoFalseAlarm, NothingToAsk, Asking
  <1>10. QED
    BY <1>1, <1>2, <1>6, <1>7, <1>9

LEMMA ElsewhereKeeps ==
    ASSUME IInv, Elsewhere
    PROVE  IInv'
  <1> USE DEF IInv, TypeOK
  <1>1. /\ PoolTypeOK' /\ waiting' = waiting
        /\ \A s \in Slots : slot'[s].owner = slot[s].owner
        /\ UNCHANGED <<configured, answer, crowded>>
        /\ trouble' = trouble \cup {p \in Asking : server' = "down" \/ HasLink(p, "dead")'}
    BY SurroundingsFacts DEF Elsewhere
  <1>2. TypeOK' /\ NothingToAsk' /\ Asking' = Asking
    BY <1>1 DEF Asking, NothingToAsk
  <1>3. ProbesLeaveNothing' /\ WaitersHoldNothing'
    BY <1>1, <1>2 DEF ProbesLeaveNothing, WaitersHoldNothing, Holds
  <1>4. TroubleIsKnown' /\ NoFalseAlarm'
    BY <1>1, <1>2 DEF TroubleIsKnown, NoFalseAlarm
  <1>5. QED
    BY <1>2, <1>3, <1>4

LEMMA ShutdownKeeps ==
    ASSUME IInv, Shutdown
    PROVE  IInv'
  <1> USE DEF IInv, TypeOK
  <1>1. /\ ProcessEnds /\ UNCHANGED <<configured, answer, trouble, crowded>>
        /\ slot' = [s \in Slots |-> [owner |-> Nobody, link |-> "closed"]]
    BY DEF Shutdown, ProcessEnds
  <1>2. /\ PoolTypeOK' /\ waiting' = {} /\ server' = server
        /\ \A s \in Slots : slot'[s].owner = Nobody
    BY <1>1, ProcessEndsFacts
  <1>3. ProbesLeaveNothing' /\ WaitersHoldNothing'
    BY <1>2, NobodyAssumption, ProbesAssumption DEF ProbesLeaveNothing, WaitersHoldNothing
  <1>4. \A q \in Probes : ~HasLink(q, "dead")'
    BY <1>1 DEF HasLink
  <1>5. TroubleIsKnown' /\ NoFalseAlarm' /\ NothingToAsk'
    BY <1>1, <1>2, <1>4 DEF TroubleIsKnown, NoFalseAlarm, NothingToAsk, Asking
  <1>6. QED
    BY <1>1, <1>2, <1>3, <1>5

-----------------------------------------------------------------------------
(* What follows, for any probes, units of work and size.                   *)

(* The strengthening the properties follow from.                           *)
THEOREM Inductive == Spec => []IInv
  <1>1. Init => IInv
    <2>1. Init => TypeOK
      BY DEF Init, PoolInit, TypeOK, PoolTypeOK, Links
    <2>2. Init => ProbesLeaveNothing /\ WaitersHoldNothing
      BY NobodyAssumption, ProbesAssumption
      DEF Init, PoolInit, ProbesLeaveNothing, WaitersHoldNothing
    <2>3. Init => NoFalseAlarm /\ NothingToAsk /\ TroubleIsKnown
      BY DEF Init, NoFalseAlarm, NothingToAsk, TroubleIsKnown, Asking
    <2>4. QED
      BY <2>1, <2>2, <2>3 DEF IInv
  <1>2. ASSUME IInv, UNCHANGED vars PROVE IInv'
    BY <1>2 DEF IInv, TypeOK, PoolTypeOK, ProbesLeaveNothing, NoFalseAlarm, WaitersHoldNothing,
       NothingToAsk, TroubleIsKnown, Asking, Holds, HasLink, vars
  <1>3. IInv /\ [Next]_vars => IInv'
    BY <1>2, NotConfiguredKeeps, AskKeeps, ConnectedKeeps, ConcludeKeeps, NotConnectedKeeps,
       WorkKeeps, ElsewhereKeeps, ShutdownKeeps DEF Next, Check
  <1>4. QED
    BY <1>1, <1>3, PTL DEF Spec

(* engine.py:57-70: every variable stays within its type.                  *)
THEOREM TypeCorrect == Spec => []TypeOK
  <1>1. IInv => TypeOK
    BY DEF IInv
  <1>2. QED
    BY <1>1, Inductive, PTL

(* engine.py:65-70: however many probes there are and however often they   *)
(* ask, none leaves a connection checked out or a checkout pending.        *)
THEOREM ProbesAreClean == Spec => []ProbesLeaveNothing
  <1>1. IInv => ProbesLeaveNothing
    BY DEF IInv
  <1>2. QED
    BY <1>1, Inductive, PTL

(* engine.py:59-70: 503 has a cause that existed during the check.         *)
THEOREM AlarmsHaveCauses == Spec => []NoFalseAlarm
  <1>1. IInv => NoFalseAlarm
    BY DEF IInv
  <1>2. QED
    BY <1>1, Inductive, PTL
=============================================================================
