-------------------------- MODULE UnitOfWorkProofs --------------------------
(***************************************************************************)
(* For any number of units, any pool size, any actions and any rejected    *)
(* rows: the types, the inductive invariant and what it implies.           *)
(***************************************************************************)
EXTENDS UnitOfWork, PoolProofs

USE DEF Units

-----------------------------------------------------------------------------
(* Types.                                                                  *)

LEMMA CallRaisesTypes ==
    ASSUME TypeOK, NEW u \in Units, CallRaises(u)
    PROVE  /\ at' \in [Units -> {"new"} \cup Inside \cup Ended]
           /\ tx' \in [Units -> {"active", "aborted", "inactive"}]
           /\ pending' \in [Units -> SUBSET Rows]
           /\ written' \in [Units -> SUBSET Rows]
           /\ warned' \subseteq Units
           /\ slot' \in [Slots -> [owner : Clients \cup {Nobody}, link : Links]]
  <1>1. CASE at[u] = "exit"
    <2>1. slot' \in [Slots -> [owner : Clients \cup {Nobody}, link : Links]]
      BY <1>1, ReturnedFacts DEF TypeOK, CallRaises
    <2>2. QED
      BY <1>1, <2>1 DEF TypeOK, CallRaises, SessionCleared, Inside, Ended
  <1>2. CASE at[u] # "exit"
    BY <1>2 DEF TypeOK, PoolTypeOK, CallRaises, SessionPoisoned, Inside, Ended
  <1>3. QED
    BY <1>1, <1>2

(* Every step keeps the types, one lemma for each group of actions.        *)
LEMMA BodyTypes ==
    ASSUME TypeOK, NEW u \in Units, Enter(u) \/ Body(u) \/ Leave(u)
    PROVE  TypeOK'
  <1>1. CASE Enter(u) \/ Query(u) \/ Commit(u) \/ ExitClean(u)
    BY <1>1 DEF TypeOK, PoolTypeOK, Enter, Query, Commit, ExitClean, SessionCleared,
                Inside, InCall, poolVars, sessionVars, promiseVars, historyVars
  <1>2. ASSUME NEW r \in Rows, Add(u, r) PROVE TypeOK'
    BY <1>2 DEF TypeOK, PoolTypeOK, Add, poolVars
  <1>3. CASE \E a \in Actions : Change(u, a) \/ Record(u, a)
    BY <1>3, <1>2 DEF Change, Record, Rows
  <1>4. CASE Rollback(u) \/ ExitRaise(u)
    <2>1. slot' \in [Slots -> [owner : Clients \cup {Nobody}, link : Links]]
      BY <1>4, ReturnedFacts DEF TypeOK, Rollback, ExitRaise
    <2>2. QED
      BY <1>4, <2>1 DEF TypeOK, PoolTypeOK, Rollback, ExitRaise, SessionCleared,
                        Ended, promiseVars, historyVars
  <1>5. QED
    BY <1>1, <1>3, <1>4 DEF Body, Leave

LEMMA CallTypes ==
    ASSUME TypeOK, NEW u \in Units, Call(u)
    PROVE  TypeOK'
  <1>1. CASE Refuse(u) \/ FlushFails(u) \/ LinkFoundDead(u)
    BY <1>1, CallRaisesTypes
    DEF TypeOK, PoolTypeOK, Refuse, FlushFails, LinkFoundDead, promiseVars, historyVars
  <1>2. CASE NothingToCommit(u)
    BY <1>2 DEF TypeOK, PoolTypeOK, NothingToCommit, BoundaryHeld, Inside, Ended,
                poolVars, sessionVars
  <1>3. CASE Checkout(u)
    BY <1>3 DEF TypeOK, PoolTypeOK, Checkout, Request, sessionVars, promiseVars, historyVars
  <1>4. CASE Connected(u)
    BY <1>4, GrantFacts DEF TypeOK, Connected, sessionVars, promiseVars, historyVars
  <1>5. CASE NotConnected(u)
    BY <1>5, RefusalFacts DEF TypeOK, NotConnected, SessionCleared, SessionPoisoned,
                              Inside, Ended, sessionVars, promiseVars, historyVars
  <1>6. CASE Flush(u)
    BY <1>6 DEF TypeOK, PoolTypeOK, Flush, poolVars, promiseVars, historyVars
  <1>7. CASE QueryAnswered(u) \/ QueryFails(u)
    BY <1>7 DEF TypeOK, PoolTypeOK, QueryAnswered, QueryFails, Inside, poolVars,
                sessionVars, promiseVars, historyVars
  <1>8. CASE Committed(u) \/ CommitRolledBack(u)
    <2>1. slot' \in [Slots -> [owner : Clients \cup {Nobody}, link : Links]]
      BY <1>8, ReturnedFacts DEF TypeOK, Committed, CommitRolledBack
    <2>2. CASE Committed(u)
      BY <2>1, <2>2 DEF TypeOK, PoolTypeOK, Committed, BoundaryHeld, SessionCleared,
                        Inside, Ended
    <2>3. CASE CommitRolledBack(u)
      BY <2>1, <2>3 DEF TypeOK, PoolTypeOK, CommitRolledBack, BoundaryHeld,
                        SessionCleared, Inside, Ended
    <2>4. QED
      BY <1>8, <2>2, <2>3
  <1>9. CASE CommitUnacknowledged(u)
    <2>1. slot' \in [Slots -> [owner : Clients \cup {Nobody}, link : Links]]
      BY <1>9, SeveredFacts DEF TypeOK, CommitUnacknowledged
    <2>2. QED
      BY <1>9, <2>1 DEF TypeOK, PoolTypeOK, CommitUnacknowledged
  <1>10. QED
    BY <1>1, <1>2, <1>3, <1>4, <1>5, <1>6, <1>7, <1>8, <1>9 DEF Call

LEMMA OutsideTypes ==
    ASSUME TypeOK, Elsewhere \/ Kill
    PROVE  TypeOK'
  <1>1. CASE Elsewhere
    BY <1>1, SurroundingsFacts DEF TypeOK, Elsewhere, sessionVars, promiseVars, historyVars
  <1>2. CASE Kill
    BY <1>2 DEF TypeOK, PoolTypeOK, Kill, ProcessEnds, Links, Ended, promiseVars, historyVars
  <1>3. QED
    BY <1>1, <1>2

LEMMA TypeStep ==
    ASSUME TypeOK, [Next]_vars
    PROVE  TypeOK'
  <1>1. CASE UNCHANGED vars
    BY <1>1 DEF TypeOK, PoolTypeOK, vars
  <1>2. CASE Next
    BY <1>2, BodyTypes, CallTypes, OutsideTypes DEF Next
  <1>3. QED
    BY <1>1, <1>2

-----------------------------------------------------------------------------
(* Connections.                                                            *)

Shape == TypeOK /\ OneConnectionEach /\ NoLeak

(* Giving back what a unit held takes nothing from the others.             *)
LEMMA ReturnedShape ==
    ASSUME Shape, NEW u \in Units, slot' = Returned(u), waiting' = waiting
    PROVE  /\ OneConnectionEach'
           /\ \A s \in Slots : slot'[s].owner # Nobody =>
                  /\ slot'[s].owner \in Units \ {u}
                  /\ at[slot'[s].owner] \in Inside
  BY ReturnedFacts DEF Shape, TypeOK, OneConnectionEach, NoLeak

LEMMA CallRaisesShape ==
    ASSUME Shape, NEW u \in Units, CallRaises(u), u \notin waiting, waiting' = waiting
    PROVE  OneConnectionEach' /\ NoLeak'
  <1>1. CASE at[u] = "exit"
    <2>1. OneConnectionEach'
      BY <1>1, ReturnedShape DEF CallRaises
    <2>2. \A s \in Slots : slot'[s].owner # Nobody => at'[slot'[s].owner] \in Inside
      BY <1>1, ReturnedShape DEF CallRaises, Shape, TypeOK
    <2>3. \A v \in waiting' : (Usable(v) /\ NeedsDatabase(v))'
      BY <1>1 DEF CallRaises, SessionCleared, Shape, TypeOK, NoLeak, Usable,
                  NeedsDatabase, PoolTypeOK
    <2>4. QED
      BY <2>1, <2>2, <2>3 DEF NoLeak
  <1>2. CASE at[u] # "exit"
    BY <1>2 DEF CallRaises, SessionPoisoned, Shape, TypeOK, NoLeak, Usable,
                NeedsDatabase, PoolTypeOK, OneConnectionEach, Inside
  <1>3. QED
    BY <1>1, <1>2

LEMMA BodyShape ==
    ASSUME Shape, NEW u \in Units, Enter(u) \/ Body(u) \/ Leave(u)
    PROVE  OneConnectionEach' /\ NoLeak'
  <1>1. u \notin waiting
    BY DEF Shape, NoLeak, Usable, InCall, Enter, Body, Leave, Change, Record, Add,
           Query, Commit, Rollback, ExitClean, ExitRaise
  <1>2. CASE Enter(u) \/ Query(u) \/ Commit(u) \/ ExitClean(u)
    BY <1>1, <1>2 DEF Shape, TypeOK, PoolTypeOK, OneConnectionEach, NoLeak, Usable,
                NeedsDatabase, Enter, Query, Commit, ExitClean, SessionCleared,
                Inside, InCall, poolVars, sessionVars
  <1>3. ASSUME NEW r, Add(u, r) PROVE OneConnectionEach' /\ NoLeak'
    BY <1>1, <1>3 DEF Shape, TypeOK, PoolTypeOK, OneConnectionEach, NoLeak, Usable,
                NeedsDatabase, Add, poolVars
  <1>4. CASE \E a \in Actions : Change(u, a) \/ Record(u, a)
    BY <1>4, <1>3 DEF Change, Record
  <1>5. CASE Rollback(u) \/ ExitRaise(u)
    <2>1. OneConnectionEach'
      BY <1>5, ReturnedShape DEF Rollback, ExitRaise
    <2>2. \A s \in Slots : slot'[s].owner # Nobody => at'[slot'[s].owner] \in Inside
      BY <1>5, ReturnedShape DEF Rollback, ExitRaise, Shape, TypeOK
    <2>3. \A v \in waiting' : (Usable(v) /\ NeedsDatabase(v))'
      BY <1>1, <1>5 DEF Rollback, ExitRaise, SessionCleared, Shape, TypeOK, NoLeak,
                  Usable, NeedsDatabase, PoolTypeOK
    <2>4. QED
      BY <2>1, <2>2, <2>3 DEF NoLeak
  <1>6. QED
    BY <1>2, <1>4, <1>5 DEF Body, Leave

LEMMA CallShape ==
    ASSUME Shape, NEW u \in Units, Call(u)
    PROVE  OneConnectionEach' /\ NoLeak'
  <1> USE DEF Shape
  <1>1. CASE Refuse(u) \/ FlushFails(u) \/ LinkFoundDead(u)
    <2>1. u \notin waiting
      BY <1>1, NobodyAssumption DEF OneConnectionEach, NoLeak, Usable, Refuse, FlushFails, Flushing,
                  LinkFoundDead, Flushed, Holds, TypeOK
    <2>2. QED
      BY <1>1, <2>1, CallRaisesShape DEF Refuse, FlushFails, LinkFoundDead
  <1>2. CASE NothingToCommit(u)
    BY <1>2 DEF TypeOK, PoolTypeOK, OneConnectionEach, NoLeak, NothingToCommit,
                BoundaryHeld, Usable, NeedsDatabase, Inside, Holds, poolVars, sessionVars
  <1>3. CASE Checkout(u)
    BY <1>3 DEF TypeOK, PoolTypeOK, OneConnectionEach, NoLeak, Checkout, Request,
                Usable, NeedsDatabase, Holds, sessionVars
  <1>4. CASE Connected(u)
    <2>1. PICK s \in Slots : Grant(u, s)
      BY <1>4 DEF Connected
    <2>2. /\ PoolTypeOK' /\ PoolTypeOK
          /\ slot[s].owner = Nobody
          /\ slot'[s] = [owner |-> u, link |-> "live"]
          /\ \A t \in Slots : t # s => slot'[t] = slot[t]
          /\ u \in waiting /\ waiting' = waiting \ {u}
      BY <2>1, GrantFacts DEF TypeOK
    <2>3. \A t \in Slots : slot[t].owner # u
      BY <2>2, NobodyAssumption DEF OneConnectionEach
    <2>4. OneConnectionEach'
      BY <2>2, <2>3 DEF OneConnectionEach
    <2>5. at[u] \in Inside
      BY <2>2 DEF NoLeak, Usable, Inside
    <2>6. NoLeak'
      BY <1>4, <2>2, <2>5
      DEF NoLeak, Usable, NeedsDatabase, Connected, sessionVars
    <2>7. QED
      BY <2>4, <2>6
  <1>5. CASE NotConnected(u)
    <2>1. OneConnectionEach'
      BY <1>5, RefusalFacts DEF TypeOK, OneConnectionEach, NotConnected
    <2>2. /\ PoolTypeOK
          /\ \A t \in Slots : slot'[t].owner = slot[t].owner
          /\ u \in waiting /\ waiting' = waiting \ {u}
      BY <1>5, RefusalFacts DEF TypeOK, NotConnected
    <2>3. \A t \in Slots : slot[t].owner # u
      BY <2>2, NobodyAssumption DEF OneConnectionEach
    <2>4. \A s \in Slots : slot'[s].owner # Nobody => at'[slot'[s].owner] \in Inside
      BY <1>5, <2>2, <2>3 DEF TypeOK, PoolTypeOK, NoLeak, NotConnected
    <2>5. \A v \in waiting' : v # u /\ v \in Units
      BY <2>2 DEF PoolTypeOK
    <2>6. \A v \in waiting' : at'[v] = at[v] /\ tx'[v] = tx[v] /\ pending'[v] = pending[v]
      BY <1>5, <2>5 DEF TypeOK, NotConnected, SessionCleared, SessionPoisoned,
                        sessionVars
    <2>7. \A v \in waiting' : (Usable(v) /\ NeedsDatabase(v))'
      BY <2>2, <2>5, <2>6 DEF NoLeak, Usable, NeedsDatabase
    <2>8. QED
      BY <2>1, <2>4, <2>7 DEF NoLeak
  <1>6. CASE Flush(u)
    BY <1>6, NobodyAssumption DEF TypeOK, PoolTypeOK, OneConnectionEach, NoLeak, Flush, Flushing, Usable,
                NeedsDatabase, Holds, poolVars
  <1>7. CASE QueryAnswered(u) \/ QueryFails(u)
    BY <1>7, NobodyAssumption, SMTT(30)
    DEF TypeOK, PoolTypeOK, OneConnectionEach, NoLeak, QueryAnswered, QueryFails, Flushed,
        Usable, NeedsDatabase, Holds, Inside, poolVars, sessionVars
  <1>8. CASE Committed(u) \/ CommitRolledBack(u)
    <2>0. u \notin waiting
      BY <1>8, NobodyAssumption
      DEF OneConnectionEach, Committed, CommitRolledBack, Flushed, Holds, TypeOK,
          PoolTypeOK, NoLeak, NeedsDatabase
    <2>1. OneConnectionEach'
      BY <1>8, ReturnedShape DEF Committed, CommitRolledBack
    <2>2. \A s \in Slots : slot'[s].owner # Nobody => at'[slot'[s].owner] \in Inside
      BY <1>8, ReturnedShape DEF Committed, CommitRolledBack, BoundaryHeld, TypeOK
    <2>3. \A v \in waiting' : (Usable(v) /\ NeedsDatabase(v))'
      BY <1>8, <2>0 DEF Committed, CommitRolledBack, BoundaryHeld, SessionCleared,
                  TypeOK, NoLeak, Usable, NeedsDatabase, PoolTypeOK
    <2>4. QED
      BY <2>1, <2>2, <2>3 DEF NoLeak
  <1>9. CASE CommitUnacknowledged(u)
    <2>1. PICK S : slot' = Severed(S)
      BY <1>9 DEF CommitUnacknowledged
    <2>2. \A s \in Slots : slot'[s].owner = slot[s].owner
      BY <2>1, SeveredFacts DEF TypeOK
    <2>3. waiting' = waiting /\ at' = at /\ tx' = tx /\ pending' = pending
      BY <1>9 DEF CommitUnacknowledged
    <2>4. OneConnectionEach'
      BY <2>2, <2>3 DEF OneConnectionEach
    <2>5. \A v \in waiting' : (Usable(v) /\ NeedsDatabase(v))'
      BY <2>3 DEF NoLeak, Usable, NeedsDatabase
    <2>6. QED
      BY <2>2, <2>3, <2>4, <2>5 DEF NoLeak
  <1>10. QED
    BY <1>1, <1>2, <1>3, <1>4, <1>5, <1>6, <1>7, <1>8, <1>9 DEF Call

LEMMA OutsideShape ==
    ASSUME Shape, Elsewhere \/ Kill
    PROVE  OneConnectionEach' /\ NoLeak'
  <1>1. CASE Elsewhere
    BY <1>1, SurroundingsFacts DEF Shape, TypeOK, OneConnectionEach, NoLeak, Usable,
                NeedsDatabase, Elsewhere, sessionVars
  <1>2. CASE Kill
    BY <1>2 DEF Kill, ProcessEnds, OneConnectionEach, NoLeak
  <1>3. QED
    BY <1>1, <1>2

LEMMA ShapeStep ==
    ASSUME Shape, [Next]_vars
    PROVE  Shape'
  <1>1. CASE UNCHANGED vars
    BY <1>1 DEF Shape, TypeOK, PoolTypeOK, OneConnectionEach, NoLeak, Usable,
                NeedsDatabase, vars
  <1>2. CASE Next
    BY <1>2, TypeStep, BodyShape, CallShape, OutsideShape DEF Shape, Next
  <1>3. QED
    BY <1>1, <1>2

-----------------------------------------------------------------------------
(* What a step of one unit leaves alone.                                   *)

(* Nothing of v changes, except that its connection may break.             *)
Untouched(v) ==
    /\ at'[v] = at[v] /\ tx'[v] = tx[v]
    /\ pending'[v] = pending[v] /\ written'[v] = written[v]
    /\ staged'[v] = staged[v] /\ promised'[v] = promised[v]
    /\ v \in unsure' <=> v \in unsure
    /\ v \in warned' <=> v \in warned
    /\ doubtful'[v] = doubtful[v]
    /\ \A r : <<v, r>> \in durable' <=> <<v, r>> \in durable
    /\ \A s \in Slots : slot[s].owner = v =>
          /\ slot'[s].owner = v
          /\ slot'[s] = slot[s] \/ slot'[s].link = "dead"

LEMMA CallRaisesUntouched ==
    ASSUME TypeOK, NEW u \in Units, NEW v \in Units, v # u, CallRaises(u),
           UNCHANGED <<durable, promiseVars>>
    PROVE  Untouched(v)
  <1>1. CASE at[u] = "exit"
    BY <1>1, ReturnedFacts
    DEF CallRaises, SessionCleared, TypeOK, Untouched, promiseVars, historyVars
  <1>2. CASE at[u] # "exit"
    BY <1>2 DEF CallRaises, SessionPoisoned, TypeOK, Untouched, promiseVars, historyVars
  <1>3. QED
    BY <1>1, <1>2

LEMMA OthersUntouched ==
    ASSUME TypeOK, NEW u \in Units, NEW v \in Units, v # u,
           Enter(u) \/ Body(u) \/ Leave(u) \/ Call(u)
    PROVE  Untouched(v)
  <1>1. CASE Enter(u) \/ Query(u) \/ Commit(u) \/ ExitClean(u)
    BY <1>1 DEF TypeOK, Untouched, Enter, Query, Commit, ExitClean, SessionCleared,
                poolVars, sessionVars, promiseVars, historyVars
  <1>2. CASE \E a \in Actions : Change(u, a) \/ Record(u, a)
    BY <1>2 DEF TypeOK, Untouched, Change, Record, Add, poolVars
  <1>3. CASE Rollback(u) \/ ExitRaise(u)
    <2>1. \A s \in Slots : slot[s].owner # u => slot'[s] = slot[s]
      BY <1>3, ReturnedFacts DEF TypeOK, Rollback, ExitRaise
    <2>2. QED
      BY <1>3, <2>1 DEF TypeOK, Untouched, Rollback, ExitRaise, SessionCleared,
                        promiseVars, historyVars
  <1>4. CASE Refuse(u) \/ FlushFails(u) \/ LinkFoundDead(u)
    BY <1>4, CallRaisesUntouched DEF Refuse, FlushFails, LinkFoundDead
  <1>5. CASE \/ NothingToCommit(u) \/ Checkout(u) \/ Flush(u)
             \/ QueryAnswered(u) \/ QueryFails(u)
    BY <1>5 DEF TypeOK, Untouched, NothingToCommit, BoundaryHeld, Checkout, Request,
                Flush, QueryAnswered, QueryFails, poolVars, sessionVars, promiseVars, historyVars
  <1>6. CASE Connected(u)
    BY <1>6, GrantFacts, NobodyAssumption
    DEF TypeOK, Untouched, Connected, sessionVars, promiseVars, historyVars
  <1>7. CASE NotConnected(u)
    <2>1. \A t \in Slots : slot[t].owner # Nobody => slot'[t] = slot[t]
      BY <1>7, RefusalFacts DEF TypeOK, NotConnected
    <2>2. QED
      BY <1>7, <2>1, NobodyAssumption
      DEF TypeOK, Untouched, NotConnected, SessionCleared, SessionPoisoned,
          sessionVars, promiseVars, historyVars
  <1>8. CASE Committed(u) \/ CommitRolledBack(u)
    <2>1. \A s \in Slots : slot[s].owner # u => slot'[s] = slot[s]
      BY <1>8, ReturnedFacts DEF TypeOK, Committed, CommitRolledBack
    <2>2. QED
      BY <1>8, <2>1 DEF TypeOK, Untouched, Committed, CommitRolledBack, BoundaryHeld,
                        SessionCleared
  <1>9. CASE CommitUnacknowledged(u)
    <2>1. \A s \in Slots : /\ slot'[s].owner = slot[s].owner
                           /\ slot'[s] = slot[s] \/ slot'[s].link = "dead"
      BY <1>9, SeveredFacts DEF TypeOK, CommitUnacknowledged
    <2>2. QED
      BY <1>9, <2>1 DEF TypeOK, Untouched, CommitUnacknowledged
  <1>10. QED
    BY <1>1, <1>2, <1>3, <1>4, <1>5, <1>6, <1>7, <1>8, <1>9 DEF Body, Leave, Call

-----------------------------------------------------------------------------
(* What the use case believes about its session.                           *)

BeliefOf(u) ==
    /\ at[u] = "new" => staged[u] = {}
    /\ at[u] \in Inside /\ ~Doomed(u) => staged[u] = pending[u] \cup written[u]
    /\ written[u] # {} => Holds(u)
    /\ tx[u] = "aborted" => Holds(u) /\ u \in warned
    /\ at[u] \in {"commit", "exit"} => Paired(u)

Belief == \A u \in Units : BeliefOf(u)

LEMMA BeliefIs == Belief <=> SessionMatchesBelief /\ WrittenIsHeld /\ PairedAtBoundary
  BY DEF Belief, BeliefOf, SessionMatchesBelief, WrittenIsHeld, PairedAtBoundary

LEMMA BystanderBelief ==
    ASSUME PoolTypeOK, PoolTypeOK', NEW v \in Units, BeliefOf(v), Untouched(v)
    PROVE  BeliefOf(v)'
  <1>1. HasLink(v, "dead") => HasLink(v, "dead")'
    BY DEF HasLink, PoolTypeOK, Untouched
  <1>2. Holds(v) => Holds(v)'
    BY DEF Holds, Untouched
  <1>3. Paired(v) <=> Paired(v)'
    BY DEF Paired, Untouched
  <1>4. QED
    BY <1>1, <1>2, <1>3 DEF BeliefOf, Doomed, Untouched

(* A session just cleared, with nothing staged or its unit gone.           *)
LEMMA ClearedBelief ==
    ASSUME TypeOK, NEW u \in Units, SessionCleared(u),
           (at'[u] = "body" /\ staged'[u] = {}) \/ at'[u] \in Ended
    PROVE  BeliefOf(u)'
  BY DEF TypeOK, SessionCleared, BeliefOf, Inside, InCall, Ended

LEMMA CallRaisesBelief ==
    ASSUME Shape, NEW u \in Units, CallRaises(u)
    PROVE  BeliefOf(u)'
  <1>1. CASE at[u] = "exit"
    BY <1>1, ClearedBelief DEF Shape, TypeOK, CallRaises, Ended
  <1>2. CASE at[u] # "exit"
    BY <1>2 DEF Shape, TypeOK, CallRaises, SessionPoisoned, BeliefOf, Doomed
  <1>3. QED
    BY <1>1, <1>2

LEMMA BodyBelief ==
    ASSUME Shape, NEW u \in Units, BeliefOf(u), Enter(u) \/ Body(u) \/ Leave(u)
    PROVE  BeliefOf(u)'
  <1>1. CASE Enter(u)
    BY <1>1, ClearedBelief DEF Shape, TypeOK, Enter, BeliefOf, promiseVars, historyVars
  <1>2. CASE Query(u) \/ Commit(u) \/ ExitClean(u)
    <2>1. UNCHANGED <<slot, tx, pending, written, staged, warned>>
      BY <1>2 DEF Query, Commit, ExitClean, poolVars, sessionVars, promiseVars, historyVars
    <2>2. /\ Doomed(u) <=> Doomed(u)'
          /\ Holds(u) <=> Holds(u)'
          /\ Paired(u) <=> Paired(u)'
      BY <2>1 DEF Doomed, HasLink, Holds, Paired
    <2>3. at[u] = "body" /\ at'[u] # "new" /\ (at'[u] \in {"commit", "exit"} => Paired(u))
      BY <1>2 DEF Shape, TypeOK, Query, Commit, ExitClean
    <2>4. QED
      BY <2>1, <2>2, <2>3 DEF BeliefOf, Inside
  <1>3. ASSUME NEW r, Add(u, r) PROVE BeliefOf(u)'
    BY <1>3 DEF Shape, TypeOK, Add, BeliefOf, Inside, Doomed, HasLink, Holds, poolVars
  <1>4. CASE \E a \in Actions : Change(u, a) \/ Record(u, a)
    BY <1>4, <1>3 DEF Change, Record
  <1>5. CASE Rollback(u) \/ ExitRaise(u)
    BY <1>5, ClearedBelief DEF Shape, TypeOK, Rollback, ExitRaise, Ended
  <1>6. QED
    BY <1>1, <1>2, <1>4, <1>5 DEF Body, Leave

LEMMA CallBelief ==
    ASSUME Shape, NEW u \in Units, BeliefOf(u), Call(u)
    PROVE  BeliefOf(u)'
  <1> USE DEF Shape
  <1>1. CASE Refuse(u) \/ FlushFails(u) \/ LinkFoundDead(u)
    BY <1>1, CallRaisesBelief DEF Refuse, FlushFails, LinkFoundDead
  <1>2. CASE NothingToCommit(u)
    BY <1>2 DEF TypeOK, NothingToCommit, BoundaryHeld, NeedsDatabase, Usable, BeliefOf,
                Inside, Ended, poolVars, sessionVars
  <1>3. CASE Checkout(u) \/ QueryAnswered(u) \/ QueryFails(u)
    BY <1>3 DEF TypeOK, QueryFails, Checkout, Request, QueryAnswered, BeliefOf, Doomed, HasLink,
                Holds, Paired, Inside, InCall, Usable, Flushed, poolVars, sessionVars,
                promiseVars, historyVars
  <1>4. CASE Connected(u)
    <2>1. PICK s \in Slots : Grant(u, s)
      BY <1>4 DEF Connected
    <2>2. /\ slot'[s] = [owner |-> u, link |-> "live"]
          /\ \A t \in Slots : t # s => slot'[t] = slot[t]
      BY <2>1, GrantFacts DEF TypeOK
    <2>3. Holds(u)' /\ (~HasLink(u, "dead")' => ~HasLink(u, "dead"))
      BY <2>1, <2>2, NobodyAssumption
      DEF TypeOK, PoolTypeOK, Holds, HasLink, Grant, Free
    <2>4. QED
      BY <1>4, <2>3 DEF Connected, BeliefOf, Doomed, Paired, sessionVars, promiseVars, historyVars
  <1>5. CASE NotConnected(u)
    <2>1. /\ PoolTypeOK
          /\ \A t \in Slots : slot'[t].owner = slot[t].owner
          /\ \A t \in Slots : slot[t].owner # Nobody => slot'[t] = slot[t]
          /\ u \in waiting
      BY <1>5, RefusalFacts DEF TypeOK, NotConnected
    <2>3. \A t \in Slots : slot[t].owner # u /\ slot'[t].owner # u
      BY <2>1, NobodyAssumption DEF OneConnectionEach
    <2>4. written[u] = {} /\ ~HasLink(u, "dead") /\ tx[u] # "aborted"
      BY <2>3 DEF BeliefOf, Holds, HasLink
    <2>2. at[u] \in InCall /\ tx[u] = "active"
      BY <2>1, <2>4 DEF NoLeak, Usable, TypeOK
    <2>5. CASE at[u] = "exit"
      BY <1>5, <2>5, ClearedBelief DEF TypeOK, NotConnected, Ended
    <2>6. CASE at[u] # "exit" /\ pending[u] # {}
      BY <1>5, <2>6 DEF TypeOK, NotConnected, SessionPoisoned, BeliefOf, Doomed
    <2>7. CASE at[u] # "exit" /\ pending[u] = {}
      BY <1>5, <2>2, <2>4, <2>7
      DEF TypeOK, NotConnected, BeliefOf, Doomed, Inside, sessionVars, promiseVars, historyVars
    <2>8. QED
      BY <2>5, <2>6, <2>7
  <1>6. CASE Flush(u)
    BY <1>6 DEF TypeOK, Flush, Flushing, BeliefOf, Doomed, HasLink, Holds, Paired,
                poolVars, promiseVars, historyVars
  <1>7. CASE Committed(u) \/ CommitRolledBack(u)
    <2>1. CASE at[u] = "exit"
      BY <1>7, <2>1, ClearedBelief
      DEF TypeOK, Committed, CommitRolledBack, BoundaryHeld, Ended
    <2>2. CASE at[u] # "exit"
      BY <1>7, <2>2, ClearedBelief DEF TypeOK, Committed, CommitRolledBack, BoundaryHeld
    <2>3. QED
      BY <2>1, <2>2
  <1>8. CASE CommitUnacknowledged(u)
    <2>1. PICK s \in Slots : slot[s] = [owner |-> u, link |-> "live"]
      BY <1>8 DEF CommitUnacknowledged, HasLink
    <2>2. slot'[s].owner = u /\ slot'[s].link = "dead"
      BY <1>8, <2>1, SeveredFacts DEF CommitUnacknowledged, TypeOK
    <2>3. HasLink(u, "dead")'
      <3>1. slot' \in [Slots -> [owner : Clients \cup {Nobody}, link : Links]]
        BY <1>8, SeveredFacts DEF CommitUnacknowledged, TypeOK
      <3>2. slot'[s] = [owner |-> u, link |-> "dead"]
        BY <2>2, <3>1
      <3>3. QED
        BY <3>2, Zenon DEF HasLink
    <2>4. QED
      BY <1>8, <2>3 DEF TypeOK, CommitUnacknowledged, BeliefOf, Doomed, Paired
  <1>9. QED
    BY <1>1, <1>2, <1>3, <1>4, <1>5, <1>6, <1>7, <1>8 DEF Call

LEMMA OutsideBelief ==
    ASSUME Shape, Belief, Shape', Elsewhere \/ Kill
    PROVE  Belief'
  <1>1. CASE Elsewhere
    <2>1. \A v \in Units : Untouched(v)
      BY <1>1, SurroundingsFacts
      DEF Shape, TypeOK, Elsewhere, Untouched, sessionVars, promiseVars, historyVars
    <2>2. QED
      BY <2>1, BystanderBelief DEF Shape, TypeOK, Belief
  <1>2. CASE Kill
    BY <1>2 DEF Shape, TypeOK, Kill, Belief, BeliefOf, Inside, InCall, Ended,
                promiseVars, historyVars
  <1>3. QED
    BY <1>1, <1>2

LEMMA BeliefStep ==
    ASSUME Shape, Belief, Shape', [Next]_vars
    PROVE  Belief'
  <1>1. ASSUME NEW u \in Units, Enter(u) \/ Body(u) \/ Leave(u) \/ Call(u)
        PROVE  Belief'
    <2> SUFFICES ASSUME NEW v \in Units PROVE BeliefOf(v)'
      BY DEF Belief
    <2>1. CASE v = u
      BY <1>1, <2>1, BodyBelief, CallBelief DEF Belief
    <2>2. CASE v # u
      BY <1>1, <2>2, OthersUntouched, BystanderBelief DEF Belief, Shape, TypeOK
    <2>3. QED
      BY <2>1, <2>2
  <1>2. CASE UNCHANGED vars
    BY <1>2 DEF vars, Belief, BeliefOf, Doomed, HasLink, Holds, Paired
  <1>3. QED
    BY <1>1, <1>2, OutsideBelief DEF Next

-----------------------------------------------------------------------------
(* What is durable.                                                        *)

KeptOf(u) ==
    /\ \A a \in Actions :
          <<u, <<"change", a>>>> \in durable <=> <<u, <<"audit", a>>>> \in durable
    /\ \A r \in promised[u] \ doubtful[u] : <<u, r>> \in durable
    /\ u \notin unsure => \A r \in Rows : <<u, r>> \in durable => r \in promised[u]

Kept == \A u \in Units : KeptOf(u)

LEMMA KeptIs == TypeOK => (Kept <=> Evidence /\ Truthful)
  BY DEF TypeOK, Kept, KeptOf, Evidence, Truthful, DurableOf, Rows

LEMMA BystanderKept ==
    ASSUME NEW v \in Units, KeptOf(v), Untouched(v)
    PROVE  KeptOf(v)'
  BY DEF KeptOf, Untouched

(* A step that leaves durable and promised as they are.                    *)
LEMMA IdleKept ==
    ASSUME NEW u \in Units, KeptOf(u), UNCHANGED <<durable, promised, unsure, doubtful>>
    PROVE  KeptOf(u)'
  BY DEF KeptOf

(* A whole segment becomes durable: paired going in, paired coming out.    *)
LEMMA SegmentKept ==
    ASSUME TypeOK, NEW u \in Units, KeptOf(u), Paired(u), written[u] = staged[u],
           durable' = durable \cup ({u} \X written[u]),
           \/ /\ promised' = [promised EXCEPT ![u] = @ \cup staged[u]]
              /\ doubtful[u] \subseteq doubtful'[u]
              /\ unsure' = unsure
           \/ UNCHANGED <<promised, doubtful>> /\ u \in unsure'
    PROVE  KeptOf(u)'
  <1>1. \A r : <<u, r>> \in durable' <=> <<u, r>> \in durable \/ r \in staged[u]
    OBVIOUS
  <1>2. \A a \in Actions :
          <<u, <<"change", a>>>> \in durable' <=> <<u, <<"audit", a>>>> \in durable'
    BY <1>1 DEF KeptOf, Paired
  <1>3. \A r \in promised'[u] \ doubtful'[u] : <<u, r>> \in durable'
    BY <1>1 DEF KeptOf, TypeOK
  <1>4. u \notin unsure' => \A r \in Rows : <<u, r>> \in durable' => r \in promised'[u]
    BY <1>1 DEF KeptOf, TypeOK
  <1>5. QED
    BY <1>2, <1>3, <1>4 DEF KeptOf

LEMMA BodyKept ==
    ASSUME NEW u \in Units, KeptOf(u), Enter(u) \/ Body(u) \/ Leave(u)
    PROVE  KeptOf(u)'
  BY IdleKept DEF Enter, Body, Leave, Change, Record, Add, Query, Commit, Rollback,
                  ExitClean, ExitRaise, promiseVars, historyVars

LEMMA CallKept ==
    ASSUME Shape, NEW u \in Units, BeliefOf(u), KeptOf(u), Call(u)
    PROVE  KeptOf(u)'
  <1> USE DEF Shape
  <1>1. CASE \/ Refuse(u) \/ Checkout(u) \/ Connected(u) \/ NotConnected(u) \/ Flush(u)
             \/ FlushFails(u) \/ QueryAnswered(u) \/ QueryFails(u) \/ LinkFoundDead(u)
    BY <1>1, IdleKept DEF Refuse, Checkout, Connected, NotConnected, Flush, FlushFails,
                          QueryAnswered, QueryFails, LinkFoundDead, promiseVars, historyVars
  <1>2. CASE NothingToCommit(u)
    <2>1. ~Doomed(u) /\ at[u] \in Inside /\ pending[u] = {} /\ written[u] = {}
      BY <1>2 DEF NothingToCommit, Usable, NeedsDatabase, BeliefOf, Doomed, HasLink,
                  Holds, Inside, TypeOK
    <2>2. staged[u] = {}
      BY <2>1 DEF BeliefOf
    <2>3. QED
      BY <1>2, <2>2 DEF TypeOK, NothingToCommit, BoundaryHeld, KeptOf
  <1>3. CASE Committed(u) \/ CommitUnacknowledged(u)
    <2>1. ~HasLink(u, "dead")
      BY <1>3, NobodyAssumption
      DEF Committed, CommitUnacknowledged, HasLink, TypeOK, PoolTypeOK,
          OneConnectionEach
    <2>2. /\ at[u] \in Inside /\ at[u] \in {"commit", "exit"}
          /\ tx[u] = "active" /\ pending[u] = {}
      BY <1>3 DEF Committed, CommitUnacknowledged, Flushed, Usable, Inside, InCall
    <2>3. written[u] = staged[u] /\ Paired(u)
      BY <2>1, <2>2 DEF BeliefOf, Doomed
    <2>4. Committed(u) => doubtful[u] \subseteq doubtful'[u]
      BY DEF Committed, BoundaryHeld, TypeOK
    <2>5. QED
      BY <1>3, <2>3, <2>4, SegmentKept DEF Committed, CommitUnacknowledged, BoundaryHeld
  <1>4. CASE CommitRolledBack(u)
    (* The unit was warned, so that whatever it believes staged is doubtful.*)
    <2>1. u \in warned /\ UNCHANGED <<durable, unsure>>
      BY <1>4 DEF CommitRolledBack, BoundaryHeld, BeliefOf
    <2>2. /\ promised'[u] = promised[u] \cup staged[u]
          /\ doubtful'[u] = doubtful[u] \cup staged[u]
      BY <1>4, <2>1 DEF CommitRolledBack, BoundaryHeld, TypeOK
    <2>3. QED
      BY <2>1, <2>2 DEF KeptOf
  <1>5. QED
    BY <1>1, <1>2, <1>3, <1>4 DEF Call

LEMMA KeptStep ==
    ASSUME Shape, Belief, Kept, [Next]_vars
    PROVE  Kept'
  <1>1. ASSUME NEW u \in Units, Enter(u) \/ Body(u) \/ Leave(u) \/ Call(u)
        PROVE  Kept'
    <2> SUFFICES ASSUME NEW v \in Units PROVE KeptOf(v)'
      BY DEF Kept
    <2>1. CASE v = u
      BY <1>1, <2>1, BodyKept, CallKept DEF Belief, Kept
    <2>2. CASE v # u
      BY <1>1, <2>2, OthersUntouched, BystanderKept DEF Kept, Shape
    <2>3. QED
      BY <2>1, <2>2
  <1>2. CASE Elsewhere \/ Kill \/ UNCHANGED vars
    BY <1>2, IdleKept DEF Kept, Elsewhere, Kill, promiseVars, historyVars, vars
  <1>3. QED
    BY <1>1, <1>2 DEF Next

-----------------------------------------------------------------------------
(* A row is one unit's.                                                    *)

Alone == LockedAlone /\ CommittedByOne

(* What a step may do to the rows of the unit that takes it: less of them  *)
(* are locked; those of a flush are, which nobody else has; or what was    *)
(* locked is durable.                                                      *)
LEMMA OwnRows ==
    ASSUME Shape, NEW u \in Units, BeliefOf(u),
           Enter(u) \/ Body(u) \/ Leave(u) \/ Call(u)
    PROVE  \/ Locked(u)' \subseteq Locked(u) /\ durable' = durable
           \/ /\ Locked(u)' \subseteq Locked(u) \cup pending[u]
              /\ durable' = durable
              /\ \A v \in Units \ {u} : pending[u] \cap (Locked(v) \cup DurableOf(v)) = {}
           \/ Locked(u)' = {} /\ durable' = durable \cup ({u} \X Locked(u))
  <1> USE DEF Shape, TypeOK
  <1>1. CASE written'[u] = {} /\ durable' = durable
    BY <1>1 DEF Locked
  <1>2. CASE slot' = slot /\ written' = written /\ durable' = durable
    BY <1>2 DEF Locked, HasLink
  <1>3. CASE Connected(u)
    <2>1. u \in waiting /\ written' = written /\ durable' = durable
      BY <1>3, GrantFacts DEF Connected, sessionVars
    <2>2. ~Holds(u)
      BY <2>1, NobodyAssumption DEF OneConnectionEach, Holds
    <2>3. written[u] = {}
      BY <2>2 DEF BeliefOf
    <2>4. QED
      BY <1>1, <2>1, <2>3
  <1>4. CASE NotConnected(u)
    <2>1. u \in waiting /\ durable' = durable
      BY <1>4, RefusalFacts DEF NotConnected
    <2>2. ~Holds(u)
      BY <2>1, NobodyAssumption DEF OneConnectionEach, Holds
    <2>3. written[u] = {}
      BY <2>2 DEF BeliefOf
    <2>4. written'[u] = {}
      BY <1>4, <2>3 DEF NotConnected, SessionCleared, SessionPoisoned, sessionVars
    <2>5. QED
      BY <1>1, <2>1, <2>4
  <1>5. CASE Flush(u)
    <2>1. /\ slot' = slot /\ durable' = durable /\ at[u] \in InCall /\ tx[u] = "active"
          /\ written'[u] = written[u] \cup pending[u] /\ HasLink(u, "live")
      BY <1>5 DEF Flush, Flushing, Usable, poolVars
    <2>2. \A v \in Units \ {u} : pending[u] \cap Locked(v) = {}
      BY <1>5, <2>1 DEF Flush, WaitsFor
    <2>3. \A v \in Units : pending[u] \cap DurableOf(v) = {}
      BY <1>5 DEF Flush, Exists, DurableOf
    <2>4. Locked(u)' \subseteq Locked(u) \cup pending[u]
      BY <2>1 DEF Locked
    <2>5. QED
      BY <2>1, <2>2, <2>3, <2>4
  <1>6. CASE Committed(u) \/ CommitUnacknowledged(u)
    <2>1. HasLink(u, "live") /\ durable' = durable \cup ({u} \X written[u])
      BY <1>6 DEF Committed, CommitUnacknowledged
    <2>2. written'[u] = {}
      BY <1>6 DEF Committed, CommitUnacknowledged, SessionCleared
    <2>3. QED
      BY <2>1, <2>2 DEF Locked
  <1>7. QED
    BY <1>1, <1>2, <1>3, <1>4, <1>5, <1>6
    DEF Body, Leave, Call, Enter, Change, Record, Add, Query, Commit, Rollback, ExitClean,
        ExitRaise, Refuse, NothingToCommit, Checkout, FlushFails, QueryAnswered, QueryFails,
        CommitRolledBack, LinkFoundDead, CallRaises, SessionCleared, SessionPoisoned,
        Request, poolVars, sessionVars

(* Nothing becomes of the rows of the others.                              *)
LEMMA OthersRows ==
    ASSUME Shape, Shape', NEW u \in Units, NEW v \in Units, v # u,
           Enter(u) \/ Body(u) \/ Leave(u) \/ Call(u), BeliefOf(v)
    PROVE  Locked(v)' \subseteq Locked(v) /\ DurableOf(v)' = DurableOf(v)
  <1>1. Untouched(v)
    BY OthersUntouched DEF Shape
  <1>2. DurableOf(v)' = DurableOf(v)
    BY <1>1 DEF DurableOf, Untouched
  <1>3. written'[v] = written[v]
    BY <1>1 DEF Untouched
  <1>4. /\ Locked(v) = IF HasLink(v, "live") THEN written[v] ELSE {}
        /\ Locked(v)' = IF HasLink(v, "live")' THEN written'[v] ELSE {}
    BY DEF Locked
  <1>5. CASE written[v] = {}
    BY <1>4, <1>2, <1>3, <1>5
  <1>6. CASE written[v] # {}
    <2>1. PICK s \in Slots : slot[s].owner = v
      BY <1>6 DEF BeliefOf, Holds
    <2>2. slot'[s].owner = v /\ (slot'[s] = slot[s] \/ slot'[s].link = "dead")
      BY <1>1, <2>1 DEF Untouched
    <2>3. \A t \in Slots : slot'[t].owner = v => t = s
      BY <2>2, NobodyAssumption DEF Shape, OneConnectionEach
    <2>4. HasLink(v, "live")' => HasLink(v, "live")
      BY <2>1, <2>2, <2>3 DEF HasLink
    <2>5. QED
      BY <1>4, <1>2, <1>3, <2>4
  <1>7. QED
    BY <1>5, <1>6

LEMMA DurableGrows ==
    ASSUME TypeOK, NEW u \in Units, durable' = durable \cup ({u} \X Locked(u))
    PROVE  DurableOf(u)' = DurableOf(u) \cup Locked(u)
  BY DEF TypeOK, DurableOf, Locked

LEMMA AloneStep ==
    ASSUME Shape, Shape', Belief, Alone, [Next]_vars
    PROVE  Alone'
  <1>1. ASSUME NEW u \in Units, Enter(u) \/ Body(u) \/ Leave(u) \/ Call(u)
        PROVE  Alone'
    <2>1. \A v \in Units \ {u} : Locked(v)' \subseteq Locked(v) /\ DurableOf(v)' = DurableOf(v)
      BY <1>1, OthersRows DEF Belief
    <2>2. \A v, w \in Units : v # w =>
             /\ Locked(v) \cap (Locked(w) \cup DurableOf(w)) = {}
             /\ DurableOf(v) \cap DurableOf(w) = {}
      BY DEF Alone, LockedAlone, CommittedByOne
    <2>3. SUFFICES \A v \in Units : v # u =>
             /\ Locked(u)' \cap (Locked(v) \cup DurableOf(v)) = {}
             /\ DurableOf(u)' \cap (Locked(v) \cup DurableOf(v)) = {}
      BY <2>1, <2>2 DEF Alone, LockedAlone, CommittedByOne
    <2>4. CASE Locked(u)' \subseteq Locked(u) /\ durable' = durable
      BY <2>2, <2>4 DEF DurableOf
    <2>5. CASE /\ Locked(u)' \subseteq Locked(u) \cup pending[u]
               /\ durable' = durable
               /\ \A v \in Units \ {u} : pending[u] \cap (Locked(v) \cup DurableOf(v)) = {}
      BY <2>2, <2>5 DEF DurableOf
    <2>6. CASE Locked(u)' = {} /\ durable' = durable \cup ({u} \X Locked(u))
      <3>1. DurableOf(u)' = DurableOf(u) \cup Locked(u)
        BY <2>6, DurableGrows DEF Shape
      <3>2. QED
        BY <2>2, <2>6, <3>1
    <2>7. QED
      BY <1>1, <2>4, <2>5, <2>6, OwnRows DEF Belief
  <1>2. CASE Elsewhere
    <2>1. \A v \in Units : HasLink(v, "live")' => HasLink(v, "live")
      BY <1>2 DEF Elsewhere, Surroundings, Outage, Recover, Drop, Severed, HasLink,
                  Shape, TypeOK, PoolTypeOK
    <2>2. written' = written /\ durable' = durable
      BY <1>2 DEF Elsewhere, sessionVars
    <2>3. \A v \in Units : Locked(v)' \subseteq Locked(v) /\ DurableOf(v)' = DurableOf(v)
      BY <2>1, <2>2 DEF Locked, DurableOf
    <2>4. QED
      BY <2>3 DEF Alone, LockedAlone, CommittedByOne
  <1>3. CASE Kill
    <2>1. \A v \in Units : Locked(v)' = {} /\ DurableOf(v)' = DurableOf(v)
      BY <1>3 DEF Kill, Locked, DurableOf
    <2>2. QED
      BY <2>1 DEF Alone, LockedAlone, CommittedByOne
  <1>4. CASE UNCHANGED vars
    BY <1>4 DEF vars, Alone, LockedAlone, CommittedByOne, Locked, DurableOf, HasLink
  <1>5. QED
    BY <1>1, <1>2, <1>3, <1>4 DEF Next

-----------------------------------------------------------------------------
(* The theorems.                                                           *)

LEMMA IInvIs == IInv <=> Shape /\ Belief /\ Kept /\ Alone
  BY BeliefIs, KeptIs DEF IInv, Shape, Alone

LEMMA InitIInv == Init => IInv
  <1> SUFFICES ASSUME Init PROVE Shape /\ Belief /\ Kept /\ Alone
    BY IInvIs
  <1>1. Shape
    BY DEF Init, Shape, TypeOK, PoolInit, PoolTypeOK, OneConnectionEach, NoLeak, Links,
           Inside, Ended
  <1>2. Belief
    BY Zenon DEF Init, Belief, BeliefOf, Inside, InCall
  <1>3. Kept
    BY Zenon DEF Init, Kept, KeptOf
  <1>4. Alone
    BY DEF Init, Alone, LockedAlone, CommittedByOne, Locked, DurableOf
  <1>5. QED
    BY <1>1, <1>2, <1>3, <1>4

(* The inductive invariant holds in every reachable state: the session     *)
(* never differs from what the use case believes unless it is going to     *)
(* refuse or the use case has been told (unit_of_work.py and SQLAlchemy's  *)
(* session together), and no row is two units' at once.                    *)
THEOREM Inductive == Spec => []IInv
  <1>1. IInv' <=> Shape' /\ Belief' /\ Kept' /\ Alone'
    BY IInvIs, PTL
  <1>2. IInv /\ [Next]_vars => IInv'
    BY <1>1, IInvIs, ShapeStep, BeliefStep, KeptStep, AloneStep
  <1>3. QED
    BY <1>2, InitIInv, PTL DEF Spec

(* Every variable keeps its type (unit_of_work.py, engine.py).             *)
THEOREM TypeCorrect == Spec => []TypeOK
  <1>1. IInv => TypeOK
    BY DEF IInv
  <1>2. QED
    BY <1>1, Inductive, PTL

(* audit_sink.py:3-5 for any number of units, actions and connections: no  *)
(* committed change is without its record, and no record without its       *)
(* change.                                                                 *)
THEOREM EvidenceIsComplete == Spec => []Evidence
  <1>1. IInv => Evidence
    BY DEF IInv
  <1>2. QED
    BY <1>1, Inductive, PTL

(* unit_of_work.py:56-78: a boundary that does not raise has kept exactly  *)
(* what was staged, unless the use case went on to it after an error it    *)
(* swallowed; one that raises has kept nothing, except after a COMMIT that *)
(* was not answered.                                                       *)
THEOREM BoundariesAreTruthful == Spec => []Truthful
  <1>1. IInv => Truthful
    BY DEF IInv
  <1>2. QED
    BY <1>1, Inductive, PTL

(* models.py:34: whichever units record the same event, one row of it is   *)
(* committed, by one of them.                                              *)
THEOREM NoRowIsCommittedTwice == Spec => []CommittedByOne
  <1>1. IInv => CommittedByOne
    BY DEF IInv
  <1>2. QED
    BY <1>1, Inductive, PTL

(* unit_of_work.py:70-72: on every path out of its block a unit gives its  *)
(* connection back, and it never has two (engine.py:33-37).                *)
THEOREM ConnectionsAreReturned == Spec => [](NoLeak /\ OneConnectionEach)
  <1>1. IInv => NoLeak /\ OneConnectionEach
    BY DEF IInv
  <1>2. QED
    BY <1>1, Inductive, PTL

-----------------------------------------------------------------------------
(* The refinement of AtomicUnits.                                          *)

(* The connections of v are the same, and worth the same.                  *)
LinksKept(v) == \A s \in Slots :
    slot[s].owner = v \/ slot'[s].owner = v => slot'[s] = slot[s]

LEMMA PhaseSame ==
    ASSUME NEW v \in Units, at'[v] = at[v], tx'[v] = tx[v], LinksKept(v),
           PoolTypeOK, PoolTypeOK'
    PROVE  Phase'[v] = Phase[v]
  <1>1. HasLink(v, "dead")' <=> HasLink(v, "dead")
    BY DEF HasLink, LinksKept, PoolTypeOK
  <1>2. QED
    BY <1>1 DEF Phase, Doomed

(* Where the abstract unit is follows from where the concrete one is.      *)
LEMMA PhaseFacts ==
    ASSUME NEW u \in Units
    PROVE  /\ at[u] \notin Inside => Phase[u] = at[u]
           /\ at[u] \in Inside /\ Doomed(u) => Phase[u] = "lost"
           /\ at[u] \in Inside /\ ~Doomed(u) => Phase[u] = "open"
  BY DEF Phase

LEMMA PhaseFactsNext ==
    ASSUME NEW u \in Units
    PROVE  /\ at'[u] \notin Inside => Phase'[u] = at'[u]
           /\ at'[u] \in Inside /\ Doomed(u)' => Phase'[u] = "lost"
           /\ at'[u] \in Inside /\ ~Doomed(u)' => Phase'[u] = "open"
  BY DEF Phase

LEMMA PhaseMoves ==
    ASSUME NEW u \in Units, \A v \in Units \ {u} : Phase'[v] = Phase[v]
    PROVE  Phase' = [Phase EXCEPT ![u] = Phase'[u]]
  BY DEF Phase

LEMMA PhaseStays ==
    ASSUME \A v \in Units : Phase'[v] = Phase[v]
    PROVE  Phase' = Phase
  BY DEF Phase

(* A call that raises touches the connections of its own unit only.        *)
LEMMA OthersLinks ==
    ASSUME Shape, NEW u \in Units, NEW v \in Units, v # u,
           Enter(u) \/ Body(u) \/ Leave(u) \/ Call(u)
    PROVE  LinksKept(v)
  <1> USE DEF Shape, TypeOK
  <1>1. CASE slot' = slot
    BY <1>1 DEF LinksKept
  <1>2. CASE slot' = Returned(u)
    BY <1>2, ReturnedFacts, NobodyAssumption DEF LinksKept
  <1>3. CASE Connected(u)
    <2>1. PICK s \in Slots : Grant(u, s)
      BY <1>3 DEF Connected
    <2> PoolTypeOK
      OBVIOUS
    <2>2. /\ slot[s].owner = Nobody /\ slot'[s] = [owner |-> u, link |-> "live"]
          /\ \A t \in Slots : t # s => slot'[t] = slot[t]
      <3> HIDE DEF Shape, TypeOK
      <3>1. QED
        BY <2>1, GrantFacts, Zenon
    <2>3. v # Nobody
      BY NobodyAssumption
    <2>4. QED
      BY <2>2, <2>3 DEF LinksKept
  <1>4. CASE NotConnected(u)
    BY <1>4, RefusalFacts, NobodyAssumption DEF LinksKept, NotConnected
  <1>5. CASE CommitUnacknowledged(u)
    BY <1>5 DEF LinksKept, CommitUnacknowledged, Severed
  <1>6. QED
    BY <1>1, <1>2, <1>3, <1>4, <1>5
    DEF Body, Leave, Call, Enter, Change, Record, Add, Query, Commit, Rollback, ExitClean,
        ExitRaise, Refuse, NothingToCommit, Checkout, Flush, FlushFails, QueryAnswered,
        QueryFails, Committed, CommitRolledBack, LinkFoundDead, CallRaises, Request,
        poolVars

LEMMA OthersPhase ==
    ASSUME Shape, Shape', NEW u \in Units,
           Enter(u) \/ Body(u) \/ Leave(u) \/ Call(u)
    PROVE  \A v \in Units \ {u} : Phase'[v] = Phase[v]
  BY OthersUntouched, OthersLinks, PhaseSame DEF Shape, TypeOK, Untouched

(* Without a connection that broke, an active session is not doomed.       *)
LEMMA SoundAfterClear ==
    ASSUME Shape, NEW u \in Units, SessionCleared(u), slot' = Returned(u)
    PROVE  ~Doomed(u)'
  BY ReturnedFacts DEF Shape, TypeOK, Doomed, HasLink, SessionCleared

-----------------------------------------------------------------------------
(* Each action of a unit is one of the abstract unit, or none.             *)

LEMMA BodyRefines ==
    ASSUME Shape, Shape', NEW u \in Units, BeliefOf(u), Enter(u) \/ Body(u) \/ Leave(u)
    PROVE  [Atomic!Next]_(Atomic!vars)
  <1> USE DEF Shape, TypeOK
  <1>1. Phase' = [Phase EXCEPT ![u] = Phase'[u]]
    BY OthersPhase, PhaseMoves
  <1>2. CASE Enter(u)
    <2>1. at[u] = "new" /\ at'[u] = "body" /\ tx'[u] = "active" /\ slot' = slot
      BY <1>2 DEF Enter, SessionCleared, poolVars
    <2>2. ~HasLink(u, "dead")'
      BY <2>1, NobodyAssumption DEF HasLink, NoLeak, Inside, InCall
    <2>3. Phase[u] = "new" /\ Phase'[u] = "open"
      BY <2>1, <2>2, PhaseFacts, PhaseFactsNext DEF Doomed, Inside, InCall
    <2>4. Atomic!Begin(u)
      BY <1>1, <1>2, <2>3 DEF Enter, Atomic!Begin, promiseVars, historyVars
    <2>5. QED
      BY <2>4 DEF Atomic!Next
  <1>3. ASSUME NEW r \in Rows, Add(u, r) PROVE Atomic!Stage(u, r)
    <2>1. at[u] = "body" /\ UNCHANGED <<slot, at, tx, durable, promised, doubtful, warned>>
          /\ staged' = [staged EXCEPT ![u] = @ \cup {r}]
      BY <1>3 DEF Add, poolVars
    <2>2. Phase' = Phase
      BY <2>1 DEF Phase, Doomed, HasLink
    <2>3. Phase[u] \in {"open", "lost"}
      BY <2>1, PhaseFacts DEF Inside
    <2>4. QED
      BY <2>1, <2>2, <2>3 DEF Atomic!Stage
  <1>4. CASE \E a \in Actions : Change(u, a) \/ Record(u, a)
    BY <1>3, <1>4 DEF Change, Record, Rows, Atomic!Next
  <1>5. CASE Query(u) \/ Commit(u) \/ ExitClean(u)
    <2>1. UNCHANGED <<slot, tx, durable, staged, promised, doubtful, warned>>
          /\ at[u] = "body" /\ at'[u] \in InCall
      BY <1>5 DEF Query, Commit, ExitClean, InCall, poolVars, sessionVars, promiseVars, historyVars
    <2>2. Doomed(u)' <=> Doomed(u)
      BY <2>1 DEF Doomed, HasLink
    <2>3. Phase'[u] = Phase[u]
      BY <2>1, <2>2, PhaseFacts, PhaseFactsNext DEF Inside
    <2>4. Phase' = Phase
      BY <2>3, OthersPhase, PhaseStays
    <2>5. QED
      BY <2>1, <2>4 DEF Atomic!vars
  <1>6. CASE Rollback(u)
    <2>1. at[u] = "body" /\ at' = at /\ SessionCleared(u) /\ slot' = Returned(u)
      BY <1>6 DEF Rollback
    <2>2. Phase[u] \in {"open", "lost"} /\ Phase'[u] = "open"
      BY <2>1, SoundAfterClear, PhaseFacts, PhaseFactsNext DEF Inside
    <2>3. Atomic!Discard(u)
      BY <1>1, <1>6, <2>2 DEF Rollback, Atomic!Discard
    <2>4. QED
      BY <2>3 DEF Atomic!Next
  <1>7. CASE ExitRaise(u)
    <2>1. Phase[u] \in {"open", "lost"} /\ Phase'[u] = "raised"
      BY <1>7, PhaseFacts, PhaseFactsNext DEF ExitRaise, Inside, InCall
    <2>2. Atomic!Raise(u)
      BY <1>1, <1>7, <2>1 DEF ExitRaise, Atomic!Raise, promiseVars, historyVars
    <2>3. QED
      BY <2>2 DEF Atomic!Next
  <1>8. QED
    BY <1>2, <1>4, <1>5, <1>6, <1>7 DEF Body, Leave

(* A unit that is told, and may have lost its work with it.                *)
LEMMA WarnsOne ==
    ASSUME NEW u \in Units, Phase[u] \in {"open", "lost"},
           Phase' = Phase \/ Phase' = [Phase EXCEPT ![u] = "lost"],
           warned' = warned \cup {u}, UNCHANGED <<durable, staged, promised, doubtful>>
    PROVE  [Atomic!Next]_(Atomic!vars)
  BY DEF Atomic!Next, Atomic!Warn

LEMMA RaisesOne ==
    ASSUME NEW u \in Units, Phase' = [Phase EXCEPT ![u] = "raised"],
           Phase[u] \in {"open", "lost"},
           UNCHANGED <<durable, staged, promised, doubtful, warned>>
    PROVE  [Atomic!Next]_(Atomic!vars)
  BY DEF Atomic!Next, Atomic!Raise

LEMMA CallRefines ==
    ASSUME Shape, Shape', NEW u \in Units, BeliefOf(u), Call(u)
    PROVE  [Atomic!Next]_(Atomic!vars)
  <1> USE DEF Shape, TypeOK
  <1>1. /\ Phase' = [Phase EXCEPT ![u] = Phase'[u]]
        /\ Phase'[u] = Phase[u] => Phase' = Phase
    BY OthersPhase, PhaseMoves, PhaseStays
  <1>2. at[u] \in Inside => Phase[u] \in {"open", "lost"}
    BY PhaseFacts
  <1>3. CASE Refuse(u) \/ FlushFails(u) \/ LinkFoundDead(u)
    <2>1. at[u] \in InCall /\ CallRaises(u)
          /\ UNCHANGED <<durable, staged, promised, doubtful>>
      BY <1>3 DEF Refuse, FlushFails, Flushing, LinkFoundDead, Flushed, Usable, promiseVars, historyVars
    <2>2. CASE at[u] = "exit"
      <3>1. Phase'[u] = "raised" /\ warned' = warned
        BY <2>1, <2>2, PhaseFactsNext DEF CallRaises, Inside, InCall
      <3>2. QED
        BY <1>1, <1>2, <2>1, <3>1, RaisesOne DEF Inside
    <2>3. CASE at[u] # "exit"
      <3>1. at'[u] = "body" /\ tx'[u] = "inactive" /\ warned' = warned \cup {u}
        BY <2>1, <2>3 DEF CallRaises, SessionPoisoned
      <3>2. Phase'[u] = "lost"
        BY <3>1, PhaseFactsNext DEF Doomed, Inside
      <3>3. Phase' = [Phase EXCEPT ![u] = "lost"] /\ Phase[u] \in {"open", "lost"}
        BY <1>1, <1>2, <2>1, <3>2 DEF Inside
      <3>4. QED
        BY <2>1, <3>1, <3>3, WarnsOne
    <2>4. QED
      BY <2>2, <2>3
  <1>4. CASE NothingToCommit(u)
    <2>1. /\ at[u] \in InCall /\ ~Doomed(u) /\ pending[u] = {} /\ written[u] = {}
          /\ UNCHANGED <<slot, tx, durable>> /\ BoundaryHeld(u)
      BY <1>4 DEF NothingToCommit, Usable, NeedsDatabase, BeliefOf, Doomed, HasLink,
                  Holds, TypeOK, poolVars, sessionVars
    <2>2. staged[u] = {} /\ Phase[u] = "open"
      BY <2>1, PhaseFacts DEF BeliefOf, Inside
    <2>3. Phase'[u] \in {"open", "returned"}
      <3>1. ~Doomed(u)' /\ at'[u] \in {"returned", "body"}
        BY <2>1 DEF Doomed, HasLink, BoundaryHeld
      <3>2. QED
        BY <3>1, PhaseFactsNext DEF Inside, InCall
    <2>4. durable' = durable \cup ({u} \X staged[u])
      BY <2>1, <2>2
    <2>5. Atomic!Publish(u)
      BY <1>1, <2>1, <2>2, <2>3, <2>4 DEF Atomic!Publish, Atomic!Hold, BoundaryHeld
    <2>6. QED
      BY <2>5 DEF Atomic!Next
  <1>5. CASE Checkout(u) \/ Flush(u)
    <2>1. UNCHANGED <<slot, at, tx, durable, staged, promised, doubtful, warned>>
      BY <1>5 DEF Checkout, Request, Flush, poolVars, sessionVars, promiseVars, historyVars
    <2>2. Phase' = Phase
      BY <2>1 DEF Phase, Doomed, HasLink
    <2>3. QED
      BY <2>1, <2>2 DEF Atomic!vars
  <1>6. CASE QueryAnswered(u)
    <2>1. /\ UNCHANGED <<slot, tx, durable, staged, promised, doubtful, warned>>
          /\ at[u] = "query" /\ at'[u] = "body"
      BY <1>6 DEF QueryAnswered, poolVars, sessionVars, promiseVars, historyVars
    <2>2. Doomed(u)' <=> Doomed(u)
      BY <2>1 DEF Doomed, HasLink
    <2>3. Phase'[u] = Phase[u]
      BY <2>1, <2>2, PhaseFacts, PhaseFactsNext DEF Inside, InCall
    <2>4. QED
      BY <1>1, <2>1, <2>3 DEF Atomic!vars
  <1>7. CASE Connected(u)
    <2>1. UNCHANGED <<at, tx, durable, staged, promised, doubtful, warned>>
      BY <1>7 DEF Connected, sessionVars, promiseVars, historyVars
    <2>2. PICK s \in Slots : Grant(u, s)
      BY <1>7 DEF Connected
    <2>3. /\ slot'[s] = [owner |-> u, link |-> "live"] /\ slot[s].owner = Nobody
          /\ \A t \in Slots : t # s => slot'[t] = slot[t]
          /\ u \in waiting
      BY <2>2, GrantFacts
    <2>4. \A t \in Slots : slot[t].owner # u
      BY <2>3, NobodyAssumption DEF OneConnectionEach
    <2>5. ~HasLink(u, "dead") /\ ~HasLink(u, "dead")'
      BY <2>3, <2>4 DEF HasLink
    <2>6. Phase'[u] = Phase[u]
      BY <2>1, <2>5 DEF Phase, Doomed
    <2>7. QED
      BY <1>1, <2>1, <2>6 DEF Atomic!vars
  <1>8. CASE NotConnected(u)
    <2>1. /\ \A t \in Slots : slot'[t].owner = slot[t].owner
          /\ u \in waiting
      BY <1>8, RefusalFacts DEF NotConnected
    <2>2. ~Holds(u)
      BY <2>1, NobodyAssumption DEF OneConnectionEach, Holds
    <2>3. at[u] \in InCall /\ tx[u] = "active"
      BY <2>1, <2>2 DEF NoLeak, Usable, BeliefOf
    <2>4. ~HasLink(u, "dead") /\ ~HasLink(u, "dead")'
      BY <2>1, NobodyAssumption DEF OneConnectionEach, HasLink
    <2>5. /\ UNCHANGED <<durable, staged, promised, doubtful>>
          /\ warned' = IF at[u] = "exit" THEN warned ELSE warned \cup {u}
      BY <1>8 DEF NotConnected, promiseVars
    <2>6. CASE at[u] = "exit"
      <3>1. Phase'[u] = "raised"
        BY <1>8, <2>6, PhaseFactsNext DEF NotConnected, Inside, InCall
      <3>2. Phase' = [Phase EXCEPT ![u] = "raised"] /\ Phase[u] \in {"open", "lost"}
        BY <1>1, <1>2, <2>3, <3>1 DEF Inside
      <3>3. QED
        BY <2>5, <2>6, <3>2, RaisesOne
    <2>7. CASE at[u] # "exit" /\ pending[u] # {}
      <3>1. at'[u] = "body" /\ tx'[u] = "inactive"
        BY <1>8, <2>7 DEF NotConnected, SessionPoisoned
      <3>2. Phase'[u] = "lost"
        BY <3>1, PhaseFactsNext DEF Doomed, Inside
      <3>3. Phase' = [Phase EXCEPT ![u] = "lost"] /\ Phase[u] \in {"open", "lost"}
        BY <1>1, <1>2, <2>3, <3>2 DEF Inside
      <3>4. QED
        BY <2>5, <2>7, <3>3, WarnsOne
    <2>8. CASE at[u] # "exit" /\ pending[u] = {}
      <3>1. at'[u] = "body" /\ tx' = tx
        BY <1>8, <2>8 DEF NotConnected, sessionVars
      <3>2. Phase'[u] = "open" /\ Phase[u] = "open"
        BY <2>3, <2>4, <3>1, PhaseFacts, PhaseFactsNext DEF Doomed, Inside
      <3>3. QED
        BY <1>1, <1>2, <2>3, <2>5, <2>8, <3>2, WarnsOne DEF Inside
    <2>9. QED
      BY <2>6, <2>7, <2>8
  <1>9. CASE Committed(u) \/ CommitUnacknowledged(u)
    <2>1. ~HasLink(u, "dead")
      <3>1. HasLink(u, "live")
        BY <1>9, Zenon DEF Committed, CommitUnacknowledged
      <3>2. QED
        BY <3>1, LiveIsNotDead
    <2>2. /\ at[u] \in InCall /\ tx[u] = "active" /\ pending[u] = {}
          /\ durable' = durable \cup ({u} \X written[u])
      BY <1>9 DEF Committed, CommitUnacknowledged, Flushed, Usable
    <2>3. Phase[u] = "open" /\ written[u] = staged[u]
      BY <2>1, <2>2, PhaseFacts DEF BeliefOf, Doomed, Inside
    <2>4. CASE Committed(u)
      <3>1. /\ SessionCleared(u) /\ slot' = Returned(u) /\ BoundaryHeld(u)
            /\ at'[u] \in {"returned", "body"}
        BY <2>4 DEF Committed, BoundaryHeld
      <3>2. Phase'[u] \in {"open", "returned"}
        BY <3>1, SoundAfterClear, PhaseFactsNext DEF Inside, InCall
      <3>3. Atomic!Publish(u)
        BY <1>1, <2>2, <2>3, <3>1, <3>2 DEF Atomic!Publish, Atomic!Hold, BoundaryHeld
      <3>4. QED
        BY <3>3 DEF Atomic!Next
    <2>5. CASE CommitUnacknowledged(u)
      <3>1. PICK s \in Slots : slot[s] = [owner |-> u, link |-> "live"]
        BY <2>5 DEF CommitUnacknowledged, HasLink
      <3>2. slot'[s] = [owner |-> u, link |-> "dead"]
        BY <2>5, <3>1 DEF CommitUnacknowledged, Severed
      <3>3. HasLink(u, "dead")'
        BY <3>2 DEF HasLink
      <3>4. UNCHANGED <<at, staged, promised, doubtful, warned>>
        BY <2>5 DEF CommitUnacknowledged
      <3>5. Phase'[u] = "lost"
        BY <2>2, <3>3, <3>4, PhaseFactsNext DEF Doomed, Inside
      <3>6. Atomic!PublishUntold(u)
        BY <1>1, <2>2, <2>3, <3>4, <3>5 DEF Atomic!PublishUntold
      <3>7. QED
        BY <3>6 DEF Atomic!Next
    <2>6. QED
      BY <1>9, <2>4, <2>5
  <1>10. CASE QueryFails(u)
    <2>1. /\ at[u] = "query" /\ at'[u] = "body" /\ tx'[u] = "aborted"
          /\ warned' = warned \cup {u} /\ UNCHANGED <<durable, staged, promised, doubtful>>
      BY <1>10 DEF QueryFails, promiseVars
    <2>2. Phase'[u] = "lost"
      BY <2>1, PhaseFactsNext DEF Doomed, Inside
    <2>3. QED
      BY <1>1, <1>2, <2>1, <2>2, WarnsOne DEF Inside, InCall
  <1>11. CASE CommitRolledBack(u)
    <2>1. /\ at[u] \in InCall /\ tx[u] = "aborted" /\ BoundaryHeld(u)
          /\ SessionCleared(u) /\ slot' = Returned(u) /\ durable' = durable
      BY <1>11 DEF CommitRolledBack, Flushed, Usable
    <2>2. u \in warned
      BY <2>1 DEF BeliefOf
    <2>3. Phase[u] = "lost"
      BY <2>1, PhaseFacts DEF Doomed, Inside
    <2>4. at'[u] \in {"returned", "body"}
      BY <2>1 DEF BoundaryHeld
    <2>5. Phase'[u] \in {"open", "returned"}
      BY <2>1, <2>4, SoundAfterClear, PhaseFactsNext DEF Inside, InCall
    <2>6. Atomic!Pretend(u)
      BY <1>1, <2>1, <2>2, <2>3, <2>5 DEF Atomic!Pretend, Atomic!Hold, BoundaryHeld
    <2>7. QED
      BY <2>6 DEF Atomic!Next
  <1>12. QED
    BY <1>3, <1>4, <1>5, <1>6, <1>7, <1>8, <1>9, <1>10, <1>11 DEF Call

(* Breaking connections only ever takes work away.                         *)
LEMMA ElsewhereRefines ==
    ASSUME Shape, Shape', Elsewhere
    PROVE  [Atomic!Next]_(Atomic!vars)
  <1> USE DEF Shape, TypeOK
  <1> DEFINE struck == {v \in Units : Phase[v] = "open" /\ Phase'[v] = "lost"}
  <1>1. UNCHANGED <<at, tx, durable, staged, promised, doubtful, warned>>
    BY DEF Elsewhere, sessionVars, promiseVars, historyVars
  <1>2. ASSUME NEW v \in Units
        PROVE  Phase'[v] = IF v \in struck THEN "lost" ELSE Phase[v]
    <2>1. HasLink(v, "dead") => HasLink(v, "dead")'
      BY SurroundingsFacts DEF Elsewhere, HasLink, PoolTypeOK
    <2>2. Doomed(v) => Doomed(v)'
      BY <1>1, <2>1 DEF Doomed
    <2>3. CASE at[v] \notin Inside
      BY <1>1, <2>3, PhaseFacts, PhaseFactsNext
    <2>4. CASE at[v] \in Inside
      BY <1>1, <2>2, <2>4, PhaseFacts, PhaseFactsNext
    <2>5. QED
      BY <2>3, <2>4
  <1>3. Phase' = [v \in Units |-> IF v \in struck THEN "lost" ELSE Phase[v]]
    BY <1>2 DEF Phase
  <1>4. Atomic!Lose(struck)
    BY <1>1, <1>3 DEF Atomic!Lose
  <1>5. QED
    BY <1>4 DEF Atomic!Next

LEMMA KillRefines ==
    ASSUME Shape, Kill
    PROVE  [Atomic!Next]_(Atomic!vars)
  <1> USE DEF Shape, TypeOK
  <1>1. \A v \in Units : at'[v] = IF at[v] \in Inside THEN "killed" ELSE at[v]
    BY DEF Kill
  <1>2. \A v \in Units : Phase'[v] = at'[v]
    BY <1>1, PhaseFactsNext DEF Inside, InCall
  <1>3. \A v \in Units : Phase[v] \in {"open", "lost"} <=> at[v] \in Inside
    BY PhaseFacts DEF Inside, InCall, Ended
  <1>4. \A v \in Units : at[v] \notin Inside => Phase[v] = at[v]
    BY PhaseFacts
  <1>5. Phase' = [v \in Units |->
                    IF Phase[v] \in {"open", "lost"} THEN "killed" ELSE Phase[v]]
    BY <1>1, <1>2, <1>3, <1>4 DEF Phase
  <1>6. Atomic!Killed
    BY <1>5 DEF Kill, Atomic!Killed, promiseVars, historyVars
  <1>7. QED
    BY <1>6 DEF Atomic!Next

LEMMA StepRefines == IInv /\ IInv' /\ [Next]_vars => [Atomic!Next]_(Atomic!vars)
  <1> SUFFICES ASSUME IInv, IInv', [Next]_vars PROVE [Atomic!Next]_(Atomic!vars)
    OBVIOUS
  <1>1. Shape /\ Shape' /\ Belief
    BY IInvIs DEF IInv, Shape
  <1>2. ASSUME NEW u \in Units, Enter(u) \/ Body(u) \/ Leave(u) \/ Call(u)
        PROVE  [Atomic!Next]_(Atomic!vars)
    BY <1>1, <1>2, BodyRefines, CallRefines DEF Belief
  <1>3. CASE Elsewhere \/ Kill
    BY <1>1, <1>3, ElsewhereRefines, KillRefines
  <1>4. CASE UNCHANGED vars
    BY <1>4 DEF vars, Atomic!vars, Phase, Doomed, HasLink
  <1>5. QED
    BY <1>2, <1>3, <1>4 DEF Next

(* unit_of_work.py (port) 23-25: for any number of units, actions and      *)
(* connections, the session, the pool and the database together are atomic *)
(* units: every step is one of AtomicUnits or changes nothing it can see.  *)
THEOREM Refinement == Spec => ImplementsAtomicUnits
  <1>1. Init => Atomic!Init
    BY DEF Init, Atomic!Init, Phase, Inside, InCall
  <1>2. QED
    BY <1>1, StepRefines, Inductive, PTL DEF Spec, ImplementsAtomicUnits, Atomic!Spec
=============================================================================
