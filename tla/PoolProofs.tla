----------------------------- MODULE PoolProofs -----------------------------
(***************************************************************************)
(* What the operators of the pool do, for any clients and any size, for    *)
(* the proofs about those who use it.                                      *)
(***************************************************************************)
EXTENDS ConnectionPool, TLAPS

(* What a client gives back is no longer its own, and nothing else moves.  *)
LEMMA ReturnedFacts ==
    ASSUME PoolTypeOK, NEW c \in Clients, slot' = Returned(c)
    PROVE  /\ slot' \in [Slots -> [owner : Clients \cup {Nobody}, link : Links]]
           /\ \A s \in Slots : slot'[s].owner # c
           /\ \A s \in Slots : slot[s].owner # c => slot'[s] = slot[s]
           /\ \A s \in Slots : slot[s].owner = c => slot'[s].owner = Nobody
  BY NobodyAssumption DEF PoolTypeOK, Returned, Links

(* Losing a connection changes what it is worth, never whose it is.        *)
LEMMA SeveredFacts ==
    ASSUME PoolTypeOK, NEW S, slot' = Severed(S)
    PROVE  /\ slot' \in [Slots -> [owner : Clients \cup {Nobody}, link : Links]]
           /\ \A s \in Slots : slot'[s].owner = slot[s].owner
           /\ \A s \in Slots : slot[s].link = "dead" => slot'[s].link = "dead"
           /\ \A s \in Slots : slot'[s] = slot[s] \/ slot'[s].link = "dead"
           /\ \A s \in Slots : s \in S /\ slot[s].link = "live" => slot'[s].link = "dead"
  BY DEF PoolTypeOK, Severed, Links

(* Who has one connection at most, and it is live, has none that is dead.  *)
LEMMA LiveIsNotDead ==
    ASSUME OneConnectionEach, NEW c \in Clients, HasLink(c, "live")
    PROVE  ~HasLink(c, "dead")
  <1>1. PICK s \in Slots : slot[s] = [owner |-> c, link |-> "live"]
    BY DEF HasLink
  <1>2. slot[s].owner = c /\ slot[s].link = "live" /\ c # Nobody
    BY <1>1, NobodyAssumption
  <1>3. ASSUME NEW t \in Slots, slot[t] = [owner |-> c, link |-> "dead"]
        PROVE  FALSE
    <2>1. slot[t].owner = c /\ slot[t].link = "dead"
      BY <1>3
    <2>2. t = s
      BY <1>2, <2>1, Zenon DEF OneConnectionEach
    <2>3. QED
      BY <1>2, <2>1, <2>2
  <1>4. QED
    BY <1>3 DEF HasLink

(* A grant gives one free place to one waiting client.                     *)
LEMMA GrantFacts ==
    ASSUME PoolTypeOK, NEW c \in Clients, NEW s \in Slots, Grant(c, s)
    PROVE  /\ PoolTypeOK'
           /\ slot[s].owner = Nobody
           /\ slot'[s] = [owner |-> c, link |-> "live"]
           /\ \A t \in Slots : t # s => slot'[t] = slot[t]
           /\ c \in waiting /\ waiting' = waiting \ {c}
  BY DEF PoolTypeOK, Grant, Free, Links

(* A checkout that fails leaves every place with the owner it had, and     *)
(* touches the link of none that has one.                                  *)
LEMMA RefusalFacts ==
    ASSUME PoolTypeOK, NEW c \in Clients,
           (\E s \in Slots : ConnectFail(c, s)) \/ Timeout(c)
    PROVE  /\ PoolTypeOK'
           /\ \A t \in Slots : slot'[t].owner = slot[t].owner
           /\ \A t \in Slots : slot[t].owner # Nobody => slot'[t] = slot[t]
           /\ c \in waiting /\ waiting' = waiting \ {c}
  BY DEF PoolTypeOK, ConnectFail, Timeout, Free, Links

LEMMA SurroundingsFacts ==
    ASSUME PoolTypeOK, Surroundings
    PROVE  /\ PoolTypeOK'
           /\ waiting' = waiting
           /\ \A s \in Slots : slot'[s].owner = slot[s].owner
           /\ \A s \in Slots : slot'[s] = slot[s] \/ slot'[s].link = "dead"
  <1>1. CASE Outage
    BY <1>1, SeveredFacts DEF Outage, PoolTypeOK
  <1>2. CASE Recover
    BY <1>2 DEF Recover, PoolTypeOK
  <1>3. CASE \E s \in Slots : Drop(s)
    BY <1>3, SeveredFacts DEF Drop, PoolTypeOK
  <1>4. QED
    BY <1>1, <1>2, <1>3 DEF Surroundings

(* Whoever holds nothing gives nothing back.                               *)
LEMMA ReturnedNothing ==
    ASSUME PoolTypeOK, NEW c \in Clients, ~Holds(c)
    PROVE  Returned(c) = slot
  BY DEF PoolTypeOK, Returned, Holds

(* When the process ends, nobody has anything.                             *)
LEMMA ProcessEndsFacts ==
    ASSUME PoolTypeOK, ProcessEnds
    PROVE  /\ PoolTypeOK'
           /\ \A s \in Slots : slot'[s].owner = Nobody
           /\ waiting' = {} /\ server' = server
  BY DEF PoolTypeOK, ProcessEnds, Links

-----------------------------------------------------------------------------
(* The pool itself.                                                        *)

(* A step of the pool keeps its types.                                     *)
LEMMA PoolStepTypes ==
    ASSUME PoolTypeOK, PoolNext
    PROVE  PoolTypeOK'
  <1>1. ASSUME NEW c \in Clients, Request(c) PROVE PoolTypeOK'
    BY <1>1 DEF PoolTypeOK, Request
  <1>2. ASSUME NEW c \in Clients, Resolve(c) PROVE PoolTypeOK'
    BY <1>2, GrantFacts, RefusalFacts DEF Resolve
  <1>3. ASSUME NEW c \in Clients, Release(c) PROVE PoolTypeOK'
    BY <1>3, ReturnedFacts DEF Release, PoolTypeOK
  <1>4. QED
    BY <1>1, <1>2, <1>3, SurroundingsFacts, ProcessEndsFacts DEF PoolNext
=============================================================================
