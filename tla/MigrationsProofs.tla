-------------------------- MODULE MigrationsProofs --------------------------
(***************************************************************************)
(* For any number of runs, revisions and starts: the schema in the         *)
(* database is the one alembic_version names.                              *)
(***************************************************************************)
EXTENDS Migrations, TLAPS

USE LastAssumption, MaxStartsAssumption DEF Revisions

LEMMA InitIInv == Init => IInv
  <1> SUFFICES ASSUME Init PROVE IInv
    OBVIOUS
  <1>1. \A p \in Runs : phase[p] = "idle"
    BY DEF Init
  <1>2. TypeOK
    <2>1. phase \in [Runs -> Working \cup Over]
      BY DEF Init, Over
    <2>2. head \in [Runs -> 0..Last] /\ target \in [Runs -> 0..Last]
      BY DEF Init
    <2>3. starts \in 0..MaxStarts
      BY DEF Init
    <2>4. applied \subseteq Revisions /\ versions \subseteq Revisions /\ makes \subseteq Runs
      BY DEF Init
    <2>5. table \in BOOLEAN
      BY DEF Init
    <2>6. QED
      BY <2>1, <2>2, <2>3, <2>4, <2>5 DEF TypeOK
  <1>3. SchemaMatchesVersion
    BY DEF Init, SchemaMatchesVersion
  <1>4. PlanIsOpen
    BY <1>1 DEF PlanIsOpen, Working
  <1>5. FoundAsExpected /\ RevisionsAreLocked /\ VersionIsLocked /\ TableIsThere
    BY <1>1 DEF FoundAsExpected, RevisionsAreLocked, VersionIsLocked, TableIsThere,
                InTransaction
  <1>6. QED
    BY <1>2, <1>3, <1>4, <1>5 DEF IInv

-----------------------------------------------------------------------------
(* A run that works goes up to Last or one down, and stays in the range.   *)
LEMMA PlanFacts ==
    ASSUME IInv, NEW p \in Runs, phase[p] \in Working
    PROVE  /\ Revision(p) \in Revisions
           /\ After(p) \in 0..Last
           /\ Upgrading(p) => /\ target[p] = Last /\ After(p) = head[p] + 1
                              /\ Revision(p) = After(p)
           /\ ~Upgrading(p) => /\ target[p] = After(p) /\ After(p) = head[p] - 1
                               /\ Revision(p) = head[p]
  BY DEF IInv, TypeOK, PlanIsOpen, Upgrading, Revision, After

(* The revision of a run depends on that run's plan alone.                 *)
LEMMA SamePlan ==
    ASSUME NEW q, head'[q] = head[q], target'[q] = target[q]
    PROVE  /\ Upgrading(q)' <=> Upgrading(q)
           /\ Revision(q)' = Revision(q)
           /\ After(q)' = After(q)
  BY DEF Upgrading, Revision, After

(* A run that ends without COMMIT gives up what it had locked.             *)
LEMMA AbortKeeps ==
    ASSUME IInv, NEW p \in Runs, Abort(p)
    PROVE  IInv'
  <1>1. /\ applied' = applied /\ versions' = versions /\ table' = table
        /\ head' = head /\ target' = target /\ starts' = starts
        /\ makes' = makes \ {p}
        /\ phase' = [phase EXCEPT ![p] = "failed"]
    BY DEF Abort, Becomes, database
  <1>2. /\ phase'[p] = "failed"
        /\ \A q \in Runs : q # p => phase'[q] = phase[q]
    BY <1>1 DEF IInv, TypeOK
  <1>3. \A q \in Runs : phase'[q] \in Working => q # p /\ phase[q] \in Working
    BY <1>2 DEF Working
  <1>4. \A q \in Runs : InTransaction(q)' => q # p /\ InTransaction(q)
    BY <1>2 DEF InTransaction
  <1>5. \A q \in Runs : (Upgrading(q)' <=> Upgrading(q)) /\ Revision(q)' = Revision(q)
    BY <1>1, SamePlan
  <1>6. TypeOK'
    BY <1>1 DEF IInv, TypeOK, Working, Over
  <1>7. SchemaMatchesVersion'
    BY <1>1 DEF IInv, SchemaMatchesVersion
  <1>8. PlanIsOpen'
    BY <1>1, <1>3 DEF IInv, PlanIsOpen
  <1>9. FoundAsExpected' /\ RevisionsAreLocked'
    BY <1>1, <1>4, <1>5 DEF IInv, FoundAsExpected, RevisionsAreLocked
  <1>10. VersionIsLocked'
    BY <1>1, <1>2 DEF IInv, VersionIsLocked
  <1>11. TableIsThere'
    BY <1>1, <1>2, <1>4 DEF IInv, TableIsThere
  <1>12. QED
    BY <1>6, <1>7, <1>8, <1>9, <1>10, <1>11 DEF IInv

-----------------------------------------------------------------------------
(* What a run finds when it begins: 0 without a version, else the one.     *)
LEMMA FoundFacts ==
    ASSUME IInv, NEW found,
           found = IF versions = {} THEN 0 ELSE CHOOSE v \in versions : TRUE
    PROVE  /\ found \in 0..Last
           /\ found = 0 <=> versions = {}
           /\ found # 0 => versions = {found} /\ table
  <1>1. CASE versions = {}
    BY <1>1
  <1>2. CASE versions # {}
    <2>1. PICK v \in Revisions : versions = {v} /\ table
      BY <1>2 DEF IInv, SchemaMatchesVersion
    <2>2. found = v
      BY <1>2, <2>1
    <2>3. QED
      BY <2>1, <2>2
  <1>3. QED
    BY <1>1, <1>2

LEMMA BeginKeeps ==
    ASSUME IInv, NEW p \in Runs, NEW direction \in {"upgrade", "downgrade"},
           Begin(p, direction)
    PROVE  IInv'
  <1> DEFINE found == IF versions = {} THEN 0 ELSE CHOOSE v \in versions : TRUE
  <1>1. /\ found \in 0..Last
        /\ found # 0 => table
    BY FoundFacts
  <1>2. /\ applied' = applied /\ versions' = versions /\ table' = table /\ makes' = makes
        /\ starts' = starts + 1 /\ starts < MaxStarts
    BY DEF Begin, database
  <1>3. /\ \A q \in Runs : q # p =>
                phase'[q] = phase[q] /\ head'[q] = head[q] /\ target'[q] = target[q]
        /\ phase' \in [Runs -> Working \cup Over]
        /\ head' \in [Runs -> 0..Last]
        /\ target' \in [Runs -> 0..Last]
        /\ ~InTransaction(p)'
        /\ phase'[p] = "ready" => found # 0
        /\ phase'[p] \in Working =>
              (target'[p] = Last /\ head'[p] < Last) \/ target'[p] = head'[p] - 1
    <2> HIDE DEF found
    <2>1. CASE ~Reachable(direction, found)
      <3>1. phase' = [phase EXCEPT ![p] = "failed"] /\ head' = head /\ target' = target
        BY <2>1 DEF Begin, Becomes, found
      <3>2. QED
        BY <3>1 DEF IInv, TypeOK, InTransaction, Working, Over
    <2>2. CASE Reachable(direction, found)
      <3> DEFINE goal == Target(direction, found)
                 new == IF found = 0 THEN "preparing"
                        ELSE IF found = goal THEN "done" ELSE "ready"
      <3>1. /\ phase' = [phase EXCEPT ![p] = new]
            /\ head' = [head EXCEPT ![p] = found]
            /\ target' = [target EXCEPT ![p] = goal]
        BY <2>2 DEF Begin, Becomes, found
      <3>2. /\ goal \in 0..Last
            /\ goal = Last \/ goal = found - 1
        BY <1>1, <2>2 DEF Target, Reachable
      <3>3. /\ new \in Working \cup Over /\ new \notin {"changed", "versioned"}
            /\ new = "ready" => found # 0
            /\ new \in Working => (goal = Last /\ found < Last) \/ goal = found - 1
        BY <1>1, <3>2 DEF Working, Over
      <3> HIDE DEF goal, new
      <3>4. QED
        BY <1>1, <3>1, <3>2, <3>3 DEF IInv, TypeOK, InTransaction
    <2>3. QED
      BY <2>1, <2>2
  <1> HIDE DEF found
  <1>4. \A q \in Runs : InTransaction(q)' =>
            q # p /\ InTransaction(q) /\ (Upgrading(q)' <=> Upgrading(q))
            /\ Revision(q)' = Revision(q)
    BY <1>3, SamePlan DEF InTransaction
  <1>5. TypeOK'
    BY <1>2, <1>3 DEF IInv, TypeOK
  <1>6. SchemaMatchesVersion'
    BY <1>2 DEF IInv, SchemaMatchesVersion
  <1>7. PlanIsOpen'
    BY <1>3 DEF IInv, PlanIsOpen
  <1>8. FoundAsExpected' /\ RevisionsAreLocked'
    BY <1>2, <1>4 DEF IInv, FoundAsExpected, RevisionsAreLocked
  <1>9. VersionIsLocked'
    BY <1>2, <1>3 DEF IInv, VersionIsLocked, InTransaction
  <1>10. TableIsThere'
    BY <1>1, <1>2, <1>3, <1>4 DEF IInv, TableIsThere
  <1>11. QED
    BY <1>5, <1>6, <1>7, <1>8, <1>9, <1>10 DEF IInv

LEMMA EnsureVersionTableKeeps ==
    ASSUME IInv, NEW p \in Runs, EnsureVersionTable(p)
    PROVE  IInv'
  <1>1. CASE Abort(p)
    BY <1>1, AbortKeeps
  <1>2. CASE ~Abort(p)
    <2>1. /\ applied' = applied /\ versions' = versions /\ table' = table
          /\ head' = head /\ target' = target /\ starts' = starts
          /\ makes' = IF table THEN makes ELSE makes \cup {p}
          /\ phase[p] = "preparing"
          /\ phase' = [phase EXCEPT ![p] = "ready"]
      BY <1>2 DEF EnsureVersionTable, Becomes, database
    <2>2. /\ phase'[p] = "ready"
          /\ \A q \in Runs : q # p => phase'[q] = phase[q]
      BY <2>1 DEF IInv, TypeOK
    <2>3. \A q \in Runs : phase'[q] \in Working => phase[q] \in Working
      BY <2>1, <2>2 DEF Working
    <2>4. \A q \in Runs : InTransaction(q)' => q # p /\ InTransaction(q)
      BY <2>2 DEF InTransaction
    <2>5. \A q \in Runs : (Upgrading(q)' <=> Upgrading(q)) /\ Revision(q)' = Revision(q)
      BY <2>1, SamePlan
    <2>6. TypeOK'
      BY <2>1 DEF IInv, TypeOK, Working
    <2>7. SchemaMatchesVersion'
      BY <2>1 DEF IInv, SchemaMatchesVersion
    <2>8. PlanIsOpen'
      BY <2>1, <2>3 DEF IInv, PlanIsOpen
    <2>9. FoundAsExpected' /\ RevisionsAreLocked'
      BY <2>1, <2>4, <2>5 DEF IInv, FoundAsExpected, RevisionsAreLocked
    <2>10. VersionIsLocked'
      BY <2>1, <2>2 DEF IInv, VersionIsLocked
    <2>11. TableIsThere'
      BY <2>1, <2>2, <2>4 DEF IInv, TableIsThere
    <2>12. QED
      BY <2>6, <2>7, <2>8, <2>9, <2>10, <2>11 DEF IInv
  <1>3. QED
    BY <1>1, <1>2

LEMMA ChangeSchemaKeeps ==
    ASSUME IInv, NEW p \in Runs, ChangeSchema(p)
    PROVE  IInv'
  <1>1. CASE Abort(p)
    BY <1>1, AbortKeeps
  <1>2. CASE ~Abort(p)
    <2>1. /\ UNCHANGED <<applied, versions, table, head, target, makes, starts>>
          /\ phase[p] = "ready"
          /\ phase' = [phase EXCEPT ![p] = "changed"]
          /\ ~SchemaLocked(p)
          /\ Upgrading(p) <=> Revision(p) \notin applied
      BY <1>2 DEF ChangeSchema, Becomes, database, Upgrading
    <2>2. /\ phase'[p] = "changed"
          /\ \A q \in Runs : q # p => phase'[q] = phase[q]
      BY <2>1 DEF IInv, TypeOK
    <2>3. \A q \in Runs : phase'[q] \in Working => phase[q] \in Working
      BY <2>1, <2>2 DEF Working
    <2>4. \A q \in Runs : InTransaction(q)' => q = p \/ InTransaction(q)
      BY <2>2 DEF InTransaction
    <2>5. \A q \in Runs : (Upgrading(q)' <=> Upgrading(q)) /\ Revision(q)' = Revision(q)
      BY <2>1, SamePlan
    <2>6. \A q \in Runs : q # p /\ InTransaction(q) => Revision(q) # Revision(p)
      BY <2>1 DEF SchemaLocked, InTransaction
    <2>7. TypeOK'
      BY <2>1 DEF IInv, TypeOK, Working
    <2>8. SchemaMatchesVersion'
      BY <2>1 DEF IInv, SchemaMatchesVersion
    <2>9. PlanIsOpen'
      BY <2>1, <2>3 DEF IInv, PlanIsOpen
    <2>10. FoundAsExpected'
      BY <2>1, <2>4, <2>5 DEF IInv, FoundAsExpected
    <2>11. RevisionsAreLocked'
      BY <2>4, <2>5, <2>6 DEF IInv, RevisionsAreLocked
    <2>12. VersionIsLocked'
      BY <2>1, <2>2 DEF IInv, VersionIsLocked
    <2>13. TableIsThere'
      BY <2>1, <2>2, <2>4 DEF IInv, TableIsThere
    <2>14. QED
      BY <2>7, <2>8, <2>9, <2>10, <2>11, <2>12, <2>13 DEF IInv
  <1>3. QED
    BY <1>1, <1>2

(* The row a run moves is the one its revision starts from: if it starts   *)
(* from none, its revision is not in the schema, so there is no row.       *)
LEMMA MovedFrom ==
    ASSUME IInv, NEW p \in Runs, phase[p] = "changed", head[p] \in versions \cup {0}
    PROVE  versions = {head[p]} \ {0}
  <1>1. head[p] \in 0..Last /\ (head[p] = 0 => Upgrading(p) /\ Revision(p) = 1)
    BY PlanFacts DEF Working, IInv, TypeOK
  <1>2. head[p] = 0 => 1 \notin applied
    BY <1>1 DEF IInv, FoundAsExpected, InTransaction
  <1>3. CASE versions = {}
    BY <1>3
  <1>4. CASE \E v \in Revisions : versions = {v} /\ applied = 1..v /\ table
    BY <1>1, <1>2, <1>4
  <1>5. QED
    BY <1>3, <1>4 DEF IInv, SchemaMatchesVersion

LEMMA MoveVersionKeeps ==
    ASSUME IInv, NEW p \in Runs, MoveVersion(p)
    PROVE  IInv'
  <1>1. CASE Abort(p)
    BY <1>1, AbortKeeps
  <1>2. CASE ~Abort(p)
    <2>1. /\ UNCHANGED <<applied, versions, table, head, target, makes, starts>>
          /\ phase[p] = "changed"
          /\ phase' = [phase EXCEPT ![p] = "versioned"]
          /\ ~VersionLocked(p)
          /\ head[p] \in versions \cup {0}
      BY <1>2 DEF MoveVersion, Becomes, database
    <2>2. /\ phase'[p] = "versioned"
          /\ \A q \in Runs : q # p => phase'[q] = phase[q]
      BY <2>1 DEF IInv, TypeOK
    <2>3. \A q \in Runs : phase'[q] \in Working => phase[q] \in Working
      BY <2>1, <2>2 DEF Working
    <2>4. \A q \in Runs : InTransaction(q)' => InTransaction(q)
      BY <2>1, <2>2 DEF InTransaction
    <2>5. \A q \in Runs : (Upgrading(q)' <=> Upgrading(q)) /\ Revision(q)' = Revision(q)
      BY <2>1, SamePlan
    <2>6. versions = {head[p]} \ {0}
      BY <2>1, MovedFrom
    <2>7. \A q \in Runs \ {p} : phase[q] # "versioned"
      <3>1. SUFFICES ASSUME NEW q \in Runs \ {p}, phase[q] = "versioned" PROVE FALSE
        OBVIOUS
      <3>2. {head[q]} \ {0} = {head[p]} \ {0}
        BY <2>6, <3>1 DEF IInv, VersionIsLocked
      <3>3. head[q] = head[p]
        BY <3>2
      <3>4. QED
        BY <2>1, <3>1, <3>3 DEF VersionLocked
    <2>8. TypeOK'
      BY <2>1 DEF IInv, TypeOK, Working
    <2>9. SchemaMatchesVersion'
      BY <2>1 DEF IInv, SchemaMatchesVersion
    <2>10. PlanIsOpen'
      BY <2>1, <2>3 DEF IInv, PlanIsOpen
    <2>11. FoundAsExpected' /\ RevisionsAreLocked'
      BY <2>1, <2>4, <2>5 DEF IInv, FoundAsExpected, RevisionsAreLocked
    <2>12. VersionIsLocked'
      BY <2>1, <2>2, <2>6, <2>7 DEF IInv, VersionIsLocked
    <2>13. TableIsThere'
      BY <2>1, <2>4 DEF IInv, TableIsThere
    <2>14. QED
      BY <2>8, <2>9, <2>10, <2>11, <2>12, <2>13 DEF IInv
  <1>3. QED
    BY <1>1, <1>2

-----------------------------------------------------------------------------
(* A committed revision takes the schema and the version together one step *)
(* up or down, and nobody else's revision is touched.                      *)
LEMMA CommittedFacts ==
    ASSUME IInv, NEW p \in Runs, phase[p] = "versioned", Committed(p)
    PROVE  /\ SchemaMatchesVersion'
           /\ versions' = {After(p)} \ {0}
           /\ applied' \subseteq Revisions /\ versions' \subseteq Revisions
           /\ table' = TRUE
           /\ makes' \subseteq Runs
           /\ \A q \in Runs : q # p /\ q \in makes => q \in makes'
           /\ \A q \in Runs : q # p /\ InTransaction(q) =>
                 (Revision(q) \in applied' <=> Revision(q) \in applied)
  <1>1. /\ head[p] \in 0..Last /\ After(p) \in 0..Last
        /\ Upgrading(p) => After(p) = head[p] + 1 /\ Revision(p) = After(p)
        /\ ~Upgrading(p) => After(p) = head[p] - 1 /\ Revision(p) = head[p]
    BY PlanFacts DEF Working, IInv, TypeOK
  <1>2. versions = {head[p]} \ {0}
    BY DEF IInv, VersionIsLocked
  <1>3. versions' = {After(p)} \ {0}
    BY <1>2 DEF Committed
  <1>4. table' = TRUE
    BY DEF Committed, IInv, TypeOK, TableIsThere, InTransaction
  <1>5. applied = 1..head[p]
    <2>1. CASE head[p] = 0
      BY <1>2, <2>1 DEF IInv, SchemaMatchesVersion
    <2>2. CASE head[p] # 0
      BY <1>2, <2>2 DEF IInv, SchemaMatchesVersion
    <2>3. QED
      BY <2>1, <2>2
  <1>6. applied' = 1..After(p)
    <2>1. CASE Upgrading(p)
      <3>1. applied' = (1..head[p]) \cup {head[p] + 1}
        BY <1>1, <1>5, <2>1 DEF Committed
      <3>2. QED
        BY <1>1, <2>1, <3>1
    <2>2. CASE ~Upgrading(p)
      <3>1. applied' = (1..head[p]) \ {head[p]}
        BY <1>1, <1>5, <2>2 DEF Committed
      <3>2. QED
        BY <1>1, <2>2, <3>1
    <2>3. QED
      BY <2>1, <2>2
  <1>7. SchemaMatchesVersion'
    <2>1. CASE After(p) = 0
      BY <1>3, <1>6, <2>1 DEF SchemaMatchesVersion
    <2>2. CASE After(p) # 0
      <3>1. After(p) \in Revisions /\ versions' = {After(p)}
        BY <1>1, <1>3, <2>2
      <3>2. QED
        BY <1>4, <1>6, <3>1 DEF SchemaMatchesVersion
    <2>3. QED
      BY <2>1, <2>2
  <1>8. applied' \subseteq Revisions /\ versions' \subseteq Revisions
    BY <1>1, <1>3, <1>6
  <1>9. makes' \subseteq Runs /\ \A q \in Runs : q # p /\ q \in makes => q \in makes'
    BY DEF Committed, IInv, TypeOK
  <1>10. \A q \in Runs : q # p /\ InTransaction(q) =>
            (Revision(q) \in applied' <=> Revision(q) \in applied)
    <2>1. \A q \in Runs : q # p /\ InTransaction(q) => Revision(q) # Revision(p)
      BY DEF IInv, RevisionsAreLocked, InTransaction
    <2>2. QED
      BY <2>1 DEF Committed
  <1>11. QED
    BY <1>3, <1>4, <1>7, <1>8, <1>9, <1>10

(* What is left to show of a step that commits, answered or not.           *)
LEMMA CommittingKeeps ==
    ASSUME IInv, NEW p \in Runs, phase[p] = "versioned", Committed(p),
           NEW new \in {"ready", "done", "failed"},
           phase' = [phase EXCEPT ![p] = new],
           head' \in [Runs -> 0..Last], target' = target, starts' = starts,
           \A q \in Runs : q # p => head'[q] = head[q],
           new = "ready" => target[p] = Last /\ head'[p] < Last
    PROVE  IInv'
  <1>1. /\ phase'[p] = new
        /\ \A q \in Runs : q # p => phase'[q] = phase[q]
    BY DEF IInv, TypeOK
  <1>2. \A q \in Runs : InTransaction(q)' => q # p /\ InTransaction(q)
    BY <1>1 DEF InTransaction
  <1>3. \A q \in Runs : q # p =>
            (Upgrading(q)' <=> Upgrading(q)) /\ Revision(q)' = Revision(q)
    BY SamePlan
  <1>4. TypeOK'
    <2>1. phase' \in [Runs -> Working \cup Over]
      BY DEF IInv, TypeOK, Working, Over
    <2>2. QED
      BY <2>1, CommittedFacts DEF IInv, TypeOK
  <1>5. SchemaMatchesVersion'
    BY CommittedFacts
  <1>6. PlanIsOpen'
    BY <1>1 DEF IInv, PlanIsOpen, Working
  <1>7. FoundAsExpected'
    BY <1>2, <1>3, CommittedFacts DEF IInv, FoundAsExpected
  <1>8. RevisionsAreLocked'
    BY <1>2, <1>3 DEF IInv, RevisionsAreLocked
  <1>9. VersionIsLocked'
    <2>1. \A q \in Runs : phase'[q] # "versioned"
      BY <1>1 DEF IInv, VersionIsLocked
    <2>2. QED
      BY <2>1 DEF VersionIsLocked
  <1>10. TableIsThere'
    BY CommittedFacts DEF TableIsThere
  <1>11. QED
    BY <1>4, <1>5, <1>6, <1>7, <1>8, <1>9, <1>10 DEF IInv

LEMMA CommitKeeps ==
    ASSUME IInv, NEW p \in Runs, Commit(p)
    PROVE  IInv'
  <1> DEFINE new == IF After(p) = target[p] THEN "done" ELSE "ready"
  <1>1. /\ phase[p] = "versioned" /\ Committed(p)
        /\ head' = [head EXCEPT ![p] = After(p)]
        /\ phase' = [phase EXCEPT ![p] = new]
        /\ target' = target /\ starts' = starts
    BY DEF Commit, Becomes
  <1>2. /\ After(p) \in 0..Last
        /\ After(p) # target[p] => target[p] = Last
    BY <1>1, PlanFacts DEF Working
  <1>3. /\ head' \in [Runs -> 0..Last]
        /\ head'[p] = After(p)
        /\ \A q \in Runs : q # p => head'[q] = head[q]
    BY <1>1, <1>2 DEF IInv, TypeOK
  <1>4. /\ new \in {"ready", "done", "failed"}
        /\ new = "ready" => target[p] = Last /\ head'[p] < Last
    BY <1>2, <1>3
  <1> HIDE DEF new
  <1>5. QED
    BY <1>1, <1>3, <1>4, CommittingKeeps

LEMMA CommitUnacknowledgedKeeps ==
    ASSUME IInv, NEW p \in Runs, CommitUnacknowledged(p)
    PROVE  IInv'
  <1>1. /\ phase[p] = "versioned" /\ Committed(p)
        /\ phase' = [phase EXCEPT ![p] = "failed"]
        /\ head' = head /\ target' = target /\ starts' = starts
    BY DEF CommitUnacknowledged, Becomes
  <1>2. head' \in [Runs -> 0..Last]
    BY <1>1 DEF IInv, TypeOK
  <1>3. QED
    BY <1>1, <1>2, CommittingKeeps

-----------------------------------------------------------------------------
LEMMA StepIInv == IInv /\ [Next]_vars => IInv'
  <1> SUFFICES ASSUME IInv, [Next]_vars PROVE IInv'
    OBVIOUS
  <1>1. ASSUME NEW p \in Runs, NEW direction \in {"upgrade", "downgrade"},
               Begin(p, direction)
        PROVE  IInv'
    BY <1>1, BeginKeeps
  <1>2. ASSUME NEW p \in Runs, Proceed(p) PROVE IInv'
    BY <1>2, EnsureVersionTableKeeps, ChangeSchemaKeeps, MoveVersionKeeps, CommitKeeps
       DEF Proceed
  <1>3. ASSUME NEW p \in Runs, CommitUnacknowledged(p) \/ Fail(p) PROVE IInv'
    BY <1>3, CommitUnacknowledgedKeeps, AbortKeeps DEF Fail
  <1>4. CASE UNCHANGED vars
    BY <1>4 DEF vars, IInv, TypeOK, SchemaMatchesVersion, PlanIsOpen, FoundAsExpected,
                RevisionsAreLocked, VersionIsLocked, TableIsThere, InTransaction,
                Upgrading, Revision
  <1>5. QED
    BY <1>1, <1>2, <1>3, <1>4 DEF Next

(* The inductive invariant holds in every reachable state: no two runs     *)
(* have a transaction open on the same revision, and none has moved the    *)
(* version from anywhere but where the database is (env.py:65-79).         *)
THEOREM Inductive == Spec => []IInv
  BY InitIInv, StepIInv, PTL DEF Spec

(* Every variable keeps its type (env.py and the revisions).               *)
THEOREM TypeCorrect == Spec => []TypeOK
  <1>1. IInv => TypeOK
    BY DEF IInv
  <1>2. QED
    BY <1>1, Inductive, PTL

(* env.py:73-74, for any number of runs and revisions: however they fail   *)
(* and interleave, the schema is the one alembic_version names.            *)
THEOREM SchemaIsVersion == Spec => []SchemaMatchesVersion
  <1>1. IInv => SchemaMatchesVersion
    BY DEF IInv
  <1>2. QED
    BY <1>1, Inductive, PTL

(* infra/migrations/README.md:24-26, for any number of runs and revisions: *)
(* an upgrade that ends well leaves the database at the head.              *)
THEOREM UpgradeReachesHead == Spec => UpgradedMeansHead
  <1> DEFINE AtHead == \A p \in Runs :
                 /\ phase[p] # "done" /\ phase'[p] = "done"
                 /\ phase[p] \in Over \/ Upgrading(p)
                 => versions' = {Last}
  <1>1. ASSUME IInv, [Next]_vars PROVE [AtHead]_vars
    <2>1. ASSUME NEW p \in Runs, phase[p] # "done", phase'[p] = "done",
                 phase[p] \in Over \/ Upgrading(p), Next
          PROVE  versions' = {Last}
      <3>1. PICK q \in Runs :
               \/ \E direction \in {"upgrade", "downgrade"} : Begin(q, direction)
               \/ Proceed(q) \/ CommitUnacknowledged(q) \/ Fail(q)
        BY <2>1 DEF Next
      <3>2. \A new \in Working \cup Over : Becomes(q, new) => q = p /\ new = "done"
        <4>1. SUFFICES ASSUME NEW new \in Working \cup Over, Becomes(q, new)
                       PROVE  q = p /\ new = "done"
          OBVIOUS
        <4>2. phase'[q] = new /\ \A r \in Runs : r # q => phase'[r] = phase[r]
          BY <1>1, <4>1 DEF Becomes, IInv, TypeOK
        <4>3. QED
          BY <2>1, <4>2
      <3>3. /\ ~Becomes(q, "ready") /\ ~Becomes(q, "changed") /\ ~Becomes(q, "versioned")
            /\ ~Becomes(q, "failed") /\ ~Becomes(q, "preparing")
            /\ Becomes(q, "done") => q = p
        BY <3>2 DEF Working, Over
      <3>4. /\ ~Abort(q) /\ ~CommitUnacknowledged(q)
            /\ ~EnsureVersionTable(q) /\ ~ChangeSchema(q) /\ ~MoveVersion(q) /\ ~Fail(q)
        BY <3>3 DEF EnsureVersionTable, ChangeSchema, MoveVersion, Fail, Abort,
                    CommitUnacknowledged
      <3>5. ASSUME Commit(q) PROVE versions' = {Last}
        <4>1. q = p /\ After(p) = target[p] /\ phase[p] = "versioned" /\ Committed(p)
          BY <3>3, <3>5 DEF Commit
        <4>2. Upgrading(p)
          BY <2>1, <4>1 DEF Over
        <4>3. After(p) = Last
          BY <1>1, <4>1, <4>2, PlanFacts DEF Working
        <4>4. QED
          BY <1>1, <4>1, <4>3, CommittedFacts
      <3>6. ASSUME NEW direction \in {"upgrade", "downgrade"}, Begin(q, direction)
            PROVE  versions' = {Last}
        <4> DEFINE found == IF versions = {} THEN 0 ELSE CHOOSE v \in versions : TRUE
        <4>1. /\ found \in 0..Last
              /\ found # 0 => versions = {found}
          BY <1>1, FoundFacts
        <4>2. /\ found # 0 /\ found = Target(direction, found)
              /\ versions' = versions
          BY <3>3, <3>6 DEF Begin, database, found
        <4> HIDE DEF found
        <4>3. QED
          BY <4>1, <4>2 DEF Target
      <3>7. QED
        BY <3>1, <3>4, <3>5, <3>6 DEF Proceed
    <2>2. QED
      BY <1>1, <2>1
  <1>2. QED
    BY <1>1, Inductive, PTL DEF Spec, UpgradedMeansHead
=============================================================================
