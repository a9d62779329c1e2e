-------------------------- MODULE AuditTrailProofs --------------------------
(***************************************************************************)
(* What holds of every unit of work object and every audit trail, however  *)
(* many rows, events and sessions there are and however deep blocks nest.  *)
(***************************************************************************)
EXTENDS AuditTrail, TLAPS

(* Sessions are made in order.                                             *)
SessionsAreCounted == \A n \in Sessions : state[n] = "unmade" <=> n > made

(* Only an open session holds rows or a connection, or is in trouble.      *)
OnlyOpenOnesWork == \A n \in Sessions :
    state[n] # "open" => added[n] = {} /\ n \notin holding /\ trouble[n] = "none"

(* Where there is a session it is that of the innermost block, and has     *)
(* what that block staged, or less if a call failed.                       *)
InnermostBlock == session # None =>
    /\ depth > 0
    /\ added[session] \subseteq staged[depth]
    /\ trouble[session] = "none" => added[session] = staged[depth]

(* The rows of the open blocks are of one block each, and no outcome is    *)
(* known of them.                                                          *)
StagedApart == \A d \in 1..depth :
    /\ staged[d] \cap durable \subseteq unsure /\ staged[d] \cap dropped = {}
    /\ \A i \in 1..depth : i # d => staged[i] \cap staged[d] = {}

(* A row that was given to a session once is not given to another.         *)
Used(r) == r \in kept \cup dropped \cup durable \/ \E d \in 1..depth : r \in staged[d]

AddedApart == \A n \in Sessions :
    /\ added[n] \cap durable = {}
    /\ \A r \in added[n] : Used(r)
    /\ \A m \in Sessions : m # n => added[m] \cap added[n] = {}

(* What reuse without nesting comes to at any time.                        *)
UsedInTurn == ~nested =>
    /\ kept \subseteq durable \cup doubtful
    /\ depth = IF session = None THEN 0 ELSE 1
    /\ holding \subseteq {session}

ObjectIInv ==
    /\ ObjectTypeOK /\ SessionIsOpen /\ DroppedIsGone
    /\ SessionsAreCounted /\ OnlyOpenOnesWork /\ InnermostBlock
    /\ StagedApart /\ AddedApart /\ UsedInTurn

-----------------------------------------------------------------------------
(* A row has a dictionary of its own; so has an event, unless it was made  *)
(* without record_audit_event, when it may have its caller's.              *)
OwnDictionaries ==
    /\ \A r \in Rows : dict[Row(r)] = Row(r) /\ content[Row(r)] = handed[r]
    /\ \A e \in Events :
         /\ dict[Caller(e)] = Caller(e)
         /\ dict[Event(e)] = Event(e) \/ (e \in bare /\ dict[Event(e)] = Caller(e))

(* What went through the front door is fine, and so is what was recorded.  *)
Validated ==
    /\ \A e \in accepted : content[Event(e)] = "fine" \/ e \in reached \cup bare
    /\ \A r \in Rows : handed[r] = "fine" \/ of[r] \in reached \cup bare

(* A flushed row has what it was handed.                                   *)
FlushedAsHanded ==
    /\ \A r \in Rows : stamp[r] # 0 => stored[r] = handed[r] /\ Used(r)
    /\ \A r \in durable : stamp[r] # 0

(* A transaction lies between the last end and now, and has one time.      *)
TimesInOrder == \A n \in Sessions :
    /\ since[n] <= now
    /\ begun[n] # 0 => state[n] = "open" /\ begun[n] \in since[n]..now
    /\ \A r \in added[n] : stamp[r] # 0 => stamp[r] = begun[n]

(* The primary key: of two rows the database has, committed or not, no two *)
(* record one event.                                                       *)
Known(r) == r \in durable \/ \E n \in Sessions : r \in added[n] /\ stamp[r] # 0
KnownOnce == \A r, q \in Rows : Known(r) /\ Known(q) /\ of[r] = of[q] => r = q

IInv ==
    /\ TypeOK /\ ObjectIInv
    /\ OwnDictionaries /\ Validated /\ FlushedAsHanded /\ TimesInOrder /\ KnownOnce
-----------------------------------------------------------------------------
(* The object: what each of its steps keeps.                               *)

LEMMA EnterKeeps ==
    ASSUME ObjectIInv, Enter
    PROVE  ObjectIInv' /\ \A r \in Rows : Used(r) => Used(r)'
  <1> USE BoundsAssumption DEF ObjectIInv, ObjectTypeOK, Enter, histories, Sessions, Depths, None
  <1>1. ObjectTypeOK'
    OBVIOUS
  <1>2. SessionIsOpen' /\ SessionsAreCounted'
    BY DEF SessionIsOpen, SessionsAreCounted
  <1>3. OnlyOpenOnesWork'
    BY DEF OnlyOpenOnesWork
  <1>4. InnermostBlock'
    <2>1. added[made + 1] = {}
      BY DEF OnlyOpenOnesWork, SessionsAreCounted
    <2>2. added'[session'] = {} /\ staged'[depth'] = {} /\ depth' > 0
      BY <2>1
    <2>3. QED
      BY <2>2 DEF InnermostBlock
  <1>5. DroppedIsGone' /\ StagedApart'
    BY DEF DroppedIsGone, StagedApart
  <1>6. AddedApart' /\ \A r \in Rows : Used(r) => Used(r)'
    <2>1. ASSUME NEW r \in Rows, Used(r) PROVE Used(r)'
      BY <2>1 DEF Used
    <2>2. added' = added /\ durable' = durable /\ \A n \in Sessions : added[n] \subseteq Rows
      OBVIOUS
    <2>3. AddedApart'
      BY <2>1, <2>2 DEF AddedApart
    <2>4. QED
      BY <2>1, <2>3
  <1>7. UsedInTurn'
    <2>1. CASE ~nested /\ depth = 0
      <3>1. session = None /\ kept \subseteq durable \cup doubtful /\ holding = {}
        <4>1. session = None /\ kept \subseteq durable \cup doubtful /\ holding \subseteq {0}
          BY <2>1 DEF UsedInTurn
        <4>2. 0 \notin holding
          OBVIOUS
        <4>3. QED
          BY <4>1, <4>2
      <3>2. depth' = 1 /\ session' # None /\ holding' = {} /\ kept' \subseteq durable' \cup doubtful'
        BY <2>1, <3>1
      <3>3. QED
        BY <3>2 DEF UsedInTurn
    <2>2. CASE nested \/ depth # 0
      <3>1. nested' = (nested \/ depth > 0) /\ (depth # 0 => depth > 0)
        OBVIOUS
      <3>2. nested'
        BY <2>2, <3>1, Zenon
      <3>3. QED
        BY <3>2, Zenon DEF UsedInTurn
    <2>3. QED
      BY <2>1, <2>2
  <1>8. QED
    BY <1>1, <1>2, <1>3, <1>4, <1>5, <1>6, <1>7

LEMMA AddKeeps ==
    ASSUME ObjectIInv, NEW r \in Rows, Add(r)
    PROVE  ObjectIInv' /\ \A q \in Rows : Used(q) => Used(q)'
  <1> USE BoundsAssumption DEF ObjectIInv, ObjectTypeOK, Add, histories, Sessions, Depths, None
  <1>1. ObjectTypeOK'
    OBVIOUS
  <1>2. SessionIsOpen' /\ SessionsAreCounted' /\ DroppedIsGone'
    BY DEF SessionIsOpen, SessionsAreCounted, DroppedIsGone
  <1>3. OnlyOpenOnesWork'
    BY DEF OnlyOpenOnesWork, SessionIsOpen
  <1>4. InnermostBlock'
    <2>1. added[session] \subseteq staged[depth]
          /\ (trouble[session] = "none" => added[session] = staged[depth])
      BY DEF InnermostBlock
    <2>2. /\ added'[session] = added[session] \cup {r}
          /\ staged'[depth] = staged[depth] \cup {r}
      OBVIOUS
    <2>3. QED
      BY <2>1, <2>2 DEF InnermostBlock
  <1>5. StagedApart'
    BY DEF StagedApart
  <1>6. ~Used(r) /\ Used(r)' /\ \A q \in Rows : Used(q) => Used(q)'
    BY SMTT(30) DEF Used
  <1>7. AddedApart'
    <2>1. \A n \in Sessions : r \notin added[n] /\ added'[n] \subseteq added[n] \cup {r}
      BY <1>6 DEF AddedApart
    <2>2. \A n \in Sessions : n # session => added'[n] = added[n]
      OBVIOUS
    <2>3. ASSUME NEW n \in Sessions PROVE added'[n] \cap durable' = {}
      BY <2>1, <1>6 DEF AddedApart, Used
    <2>4. ASSUME NEW n \in Sessions, NEW q \in added'[n] PROVE Used(q)'
      BY <2>1, <1>6 DEF AddedApart
    <2>5. ASSUME NEW n \in Sessions, NEW m \in Sessions, m # n
          PROVE  added'[m] \cap added'[n] = {}
      BY <2>1, <2>2, <2>5 DEF AddedApart
    <2>6. QED
      BY <2>3, <2>4, <2>5 DEF AddedApart
  <1>8. UsedInTurn'
    BY DEF UsedInTurn
  <1>9. QED
    BY <1>1, <1>2, <1>3, <1>4, <1>5, <1>6, <1>7, <1>8

LEMMA QueryKeeps ==
    ASSUME ObjectIInv, Query
    PROVE  ObjectIInv' /\ \A r \in Rows : Used(r) => Used(r)'
  <1> USE DEF ObjectIInv, ObjectTypeOK, Query, histories, Sessions, None
  <1>1. ObjectTypeOK' /\ SessionIsOpen' /\ SessionsAreCounted' /\ DroppedIsGone'
    BY DEF SessionIsOpen, SessionsAreCounted, DroppedIsGone
  <1>2. OnlyOpenOnesWork' /\ InnermostBlock'
    BY DEF OnlyOpenOnesWork, InnermostBlock, SessionIsOpen
  <1>3. StagedApart' /\ AddedApart' /\ \A r \in Rows : Used(r) => Used(r)'
    BY DEF StagedApart, AddedApart, Used
  <1>4. UsedInTurn'
    BY DEF UsedInTurn
  <1>5. QED
    BY <1>1, <1>2, <1>3, <1>4

LEMMA InTurn ==
    ASSUME nested' = nested,
           ASSUME ~nested
           PROVE  /\ kept' \subseteq durable' \cup doubtful'
                  /\ depth' = IF session' = None THEN 0 ELSE 1
                  /\ holding' \subseteq {session'}
    PROVE  UsedInTurn'
  BY Zenon DEF UsedInTurn

(* A call fails and the block goes on: what the session had is not in it   *)
(* any more, and is durable only if a COMMIT was under way.                *)
LEMMA BreaksKeeps ==
    ASSUME ObjectIInv, NEW how \in {"aborted", "poisoned"}, Breaks(how),
           holding' \in {holding, holding \cup {session}},
           \/ durable' = durable /\ unsure' = unsure
           \/ durable' = durable \cup added[session] /\ unsure' = unsure \cup added[session]
    PROVE  ObjectIInv' /\ \A r \in Rows : Used(r) => Used(r)'
  <1> USE BoundsAssumption DEF ObjectIInv, ObjectTypeOK, Breaks, Sessions, Depths, None
  <1>1. depth \in Depths /\ session \in Sessions /\ added[session] \subseteq staged[depth]
    BY DEF InnermostBlock
  <1>2. /\ added'[session] = {} /\ trouble'[session] = how
        /\ \A n \in Sessions : n # session => added'[n] = added[n] /\ trouble'[n] = trouble[n]
        /\ UNCHANGED <<session, made, state, depth, staged, kept, dropped, doubtful, nested>>
    BY <1>1
  <1>3. ObjectTypeOK'
    <2>1. /\ trouble' \in [Sessions -> {"none", "aborted", "poisoned"}]
          /\ added' \in [Sessions -> SUBSET Rows]
      OBVIOUS
    <2>2. holding' \subseteq Sessions /\ durable' \subseteq Rows /\ unsure' \subseteq Rows
      BY <1>1
    <2>3. QED
      BY <1>2, <2>1, <2>2
  <1>4. SessionIsOpen' /\ SessionsAreCounted'
    BY <1>2 DEF SessionIsOpen, SessionsAreCounted
  <1>5. OnlyOpenOnesWork'
    BY <1>2 DEF OnlyOpenOnesWork, SessionIsOpen
  <1>6. InnermostBlock'
    BY <1>1, <1>2 DEF InnermostBlock
  <1>7. DroppedIsGone' /\ StagedApart'
    <2>1. \A d \in 1..depth : staged[d] \cap dropped = {}
      BY DEF StagedApart
    <2>2. DroppedIsGone'
      BY <1>1, <1>2, <2>1 DEF DroppedIsGone
    <2>3. \A d \in 1..depth : staged[d] \cap durable' \subseteq unsure'
      BY <1>1 DEF StagedApart
    <2>4. StagedApart'
      BY <1>2, <2>1, <2>3 DEF StagedApart
    <2>5. QED
      BY <2>2, <2>4
  <1>8. \A r \in Rows : Used(r) => Used(r)'
    BY <1>2 DEF Used
  <1>9. AddedApart'
    <2>1. \A n \in Sessions : added'[n] \subseteq added[n]
      BY <1>2
    <2>2. ASSUME NEW n \in Sessions PROVE added'[n] \cap durable' = {}
      <3>1. CASE n = session
        BY <1>2, <3>1
      <3>2. CASE n # session
        <4>1. added[n] \cap added[session] = {} /\ added[n] \cap durable = {}
          BY <1>1, <3>2 DEF AddedApart
        <4>2. QED
          BY <2>1, <4>1
      <3>3. QED
        BY <3>1, <3>2
    <2>3. ASSUME NEW n \in Sessions, NEW q \in added'[n] PROVE Used(q)'
      BY <1>8, <2>1 DEF AddedApart
    <2>4. ASSUME NEW n \in Sessions, NEW m \in Sessions, m # n
          PROVE  added'[m] \cap added'[n] = {}
      BY <2>1, <2>4 DEF AddedApart
    <2>5. QED
      BY <2>2, <2>3, <2>4 DEF AddedApart
  <1>10. UsedInTurn'
    <2>1. durable \subseteq durable'
      OBVIOUS
    <2>2. nested' = nested
      BY <1>2
    <2>3. ASSUME ~nested
          PROVE  /\ kept' \subseteq durable' \cup doubtful'
                 /\ depth' = IF session' = None THEN 0 ELSE 1
                 /\ holding' \subseteq {session'}
      <3>1. /\ kept \subseteq durable \cup doubtful /\ holding \subseteq {session}
            /\ depth = IF session = None THEN 0 ELSE 1
        BY <2>3, Zenon DEF UsedInTurn, ObjectIInv
      <3>2. QED
        BY <1>2, <2>1, <3>1
    <2> HIDE DEF ObjectIInv, ObjectTypeOK, Breaks, Sessions, Depths, None
    <2>4. QED
      BY <2>2, <2>3, InTurn, Zenon
  <1>11. QED
    BY <1>3, <1>4, <1>5, <1>6, <1>7, <1>8, <1>9, <1>10

(* What the outcomes say of what the innermost block staged.  What the     *)
(* session has is committed only if no call of it has failed; what is kept *)
(* without that is doubtful; what is committed and dropped is unsure.      *)
Decides(committing) ==
    /\ kept' \in {kept, kept \cup staged[depth]}
    /\ dropped' \in {dropped, dropped \cup staged[depth]}
    /\ doubtful' \in {doubtful, doubtful \cup staged[depth]}
    /\ unsure' \in {unsure, unsure \cup staged[depth]}
    /\ staged[depth] \subseteq kept' \cup dropped'
    /\ committing => Trusted
    /\ kept' = kept \/ committing \/ doubtful' = doubtful \cup staged[depth]
    /\ dropped' = dropped \/ ~committing \/ unsure' = unsure \cup staged[depth]

(* What a decision comes to for the invariants of the histories.           *)
LEMMA DecisionFacts ==
    ASSUME ObjectIInv, NEW committing \in BOOLEAN, Decides(committing), depth \in Depths,
           durable' = IF committing /\ session # None THEN durable \cup added[session] ELSE durable
    PROVE  /\ kept' \subseteq Rows /\ dropped' \subseteq Rows /\ durable' \subseteq Rows
           /\ doubtful' \subseteq Rows /\ unsure' \subseteq Rows
           /\ dropped' \cap durable' \subseteq unsure'
           /\ durable \subseteq durable' /\ unsure \subseteq unsure' /\ durable' \subseteq durable \cup staged[depth]
           /\ dropped' \subseteq dropped \cup staged[depth]
           /\ session # None /\ kept \subseteq durable \cup doubtful
                => kept' \subseteq durable' \cup doubtful'
  <1> USE DEF ObjectIInv, ObjectTypeOK, Decides
  <1>1. /\ staged[depth] \subseteq Rows
        /\ staged[depth] \cap dropped = {} /\ staged[depth] \cap durable \subseteq unsure
    BY DEF StagedApart, Depths
  <1>2. committing /\ session # None => durable' = durable \cup staged[depth]
    BY DEF InnermostBlock, Trusted
  <1>3. durable' = durable \/ durable' = durable \cup staged[depth]
    BY <1>2
  <1>4. dropped' \cap durable' \subseteq unsure'
    <2>1. CASE dropped' = dropped
      BY <1>1, <1>3, <2>1 DEF DroppedIsGone
    <2>2. CASE ~committing
      BY <1>1, <2>2 DEF DroppedIsGone
    <2>3. CASE unsure' = unsure \cup staged[depth]
      BY <1>1, <1>3, <2>3 DEF DroppedIsGone
    <2>4. QED
      BY <2>1, <2>2, <2>3
  <1>5. ASSUME session # None, kept \subseteq durable \cup doubtful
        PROVE  kept' \subseteq durable' \cup doubtful'
    <2>1. CASE kept' = kept
      BY <1>3, <1>5, <2>1
    <2>2. CASE committing
      BY <1>2, <1>5, <2>2
    <2>3. CASE doubtful' = doubtful \cup staged[depth]
      BY <1>3, <1>5, <2>3
    <2>4. QED
      BY <2>1, <2>2, <2>3
  <1>6. /\ kept' \subseteq Rows /\ dropped' \subseteq Rows /\ durable' \subseteq Rows
        /\ doubtful' \subseteq Rows /\ unsure' \subseteq Rows
    BY <1>1, <1>3
  <1>7. QED
    BY <1>3, <1>4, <1>5, <1>6

(* However a block is left: the exits differ in what the histories say.    *)
LEMMA ExitKeeps ==
    ASSUME ObjectIInv, NEW committing \in BOOLEAN, Exit(committing), Decides(committing)
    PROVE  ObjectIInv' /\ \A r \in Rows : Used(r) => Used(r)'
  <1> USE BoundsAssumption DEF ObjectIInv, ObjectTypeOK, Exit, Sessions, Depths, None
  <1>1. session' = None /\ depth' = depth - 1 /\ depth \in 1..MaxDepth /\ depth' \in 0..MaxDepth
    BY DEF Close
  <1>2. /\ \A d \in 1..depth' : staged'[d] = staged[d]
        /\ \A n \in Sessions : n # session => added'[n] = added[n] /\ state'[n] = state[n]
        /\ \A n \in Sessions : n # session => trouble'[n] = trouble[n]
    BY <1>1 DEF Close
  <1>3. session # None =>
           /\ added'[session] = {} /\ state'[session] = "closed" /\ trouble'[session] = "none"
           /\ holding' = holding \ {session}
           /\ durable' = IF committing THEN durable \cup added[session] ELSE durable
    BY DEF Close
  <1>4. session = None => durable' = durable /\ holding' = holding
    OBVIOUS
  <1>5. /\ kept' \subseteq Rows /\ dropped' \subseteq Rows /\ durable' \subseteq Rows
        /\ doubtful' \subseteq Rows /\ unsure' \subseteq Rows
        /\ dropped' \cap durable' \subseteq unsure'
        /\ durable \subseteq durable' /\ unsure \subseteq unsure' /\ durable' \subseteq durable \cup staged[depth]
        /\ dropped' \subseteq dropped \cup staged[depth]
        /\ session # None /\ kept \subseteq durable \cup doubtful
             => kept' \subseteq durable' \cup doubtful'
    <2>1. durable' = IF committing /\ session # None THEN durable \cup added[session] ELSE durable
      BY <1>3, <1>4
    <2>2. depth \in Depths
      BY <1>1
    <2> HIDE DEF ObjectIInv, ObjectTypeOK, Exit, Sessions, Depths, None
    <2>3. QED
      BY <2>1, <2>2, DecisionFacts
  <1>6. ObjectTypeOK'
    <2>1. /\ state' \in [Sessions -> {"unmade", "open", "closed"}]
          /\ added' \in [Sessions -> SUBSET Rows]
          /\ trouble' \in [Sessions -> {"none", "aborted", "poisoned"}]
          /\ holding' \subseteq Sessions
      BY DEF Close
    <2>2. staged' \in [Depths -> SUBSET Rows] /\ nested' \in BOOLEAN /\ made' \in 0..MaxSessions
      BY <1>1
    <2>3. QED
      BY <1>1, <1>5, <2>1, <2>2
  <1>7. SessionIsOpen' /\ InnermostBlock' /\ SessionsAreCounted' /\ DroppedIsGone'
    BY <1>1, <1>2, <1>3, <1>5 DEF SessionIsOpen, InnermostBlock, SessionsAreCounted, DroppedIsGone
  <1>8. OnlyOpenOnesWork'
    BY <1>2, <1>3, <1>4 DEF OnlyOpenOnesWork
  <1>9. StagedApart'
    BY <1>1, <1>2, <1>5 DEF StagedApart
  <1>10. \A r \in Rows : Used(r) => Used(r)'
    <2>1. kept \subseteq kept' /\ dropped \subseteq dropped' /\ staged[depth] \subseteq kept' \cup dropped'
      BY DEF Decides
    <2>2. ASSUME NEW d \in 1..depth, d # depth PROVE d \in 1..depth'
      BY <1>1, <2>2
    <2>3. QED
      BY <1>1, <1>2, <1>5, <2>1, <2>2 DEF Used
  <1>11. AddedApart'
    <2>1. \A n \in Sessions : added'[n] \subseteq added[n]
      BY <1>2, <1>3
    <2>2. ASSUME NEW n \in Sessions PROVE added'[n] \cap durable' = {}
      <3>1. CASE n = session
        BY <1>3, <3>1
      <3>2. CASE n # session
        <4>1. session # None => added[n] \cap added[session] = {}
          BY <3>2 DEF AddedApart
        <4>2. QED
          BY <1>3, <1>4, <2>1, <4>1 DEF AddedApart
      <3>3. QED
        BY <3>1, <3>2
    <2>3. ASSUME NEW n \in Sessions, NEW q \in added'[n] PROVE Used(q)'
      BY <1>10, <2>1 DEF AddedApart
    <2>4. ASSUME NEW n \in Sessions, NEW m \in Sessions, m # n
          PROVE  added'[m] \cap added'[n] = {}
      BY <2>1, <2>4 DEF AddedApart
    <2>5. QED
      BY <2>2, <2>3, <2>4 DEF AddedApart
  <1>12. UsedInTurn'
    <2>1. SUFFICES ASSUME ~nested
                   PROVE  /\ kept' \subseteq durable' \cup doubtful'
                          /\ depth' = 0 /\ holding' \subseteq {session'}
      BY <1>1 DEF UsedInTurn
    <2>2. /\ kept \subseteq durable \cup doubtful /\ holding \subseteq {session}
          /\ depth = IF session = None THEN 0 ELSE 1
      BY <2>1, Zenon DEF UsedInTurn, ObjectIInv
    <2>3. session # None /\ depth = 1
      BY <1>1, <2>2
    <2>4. holding' = {} /\ depth' = 0
      <3>1. holding' = holding \ {session} /\ depth' = 0
        BY <1>1, <1>3, <2>3
      <3>2. QED
        BY <2>2, <3>1, Zenon
    <2>5. QED
      BY <1>5, <2>2, <2>3, <2>4
  <1>13. QED
    BY <1>6, <1>7, <1>8, <1>9, <1>10, <1>11, <1>12

(* However a transaction is ended inside its block.                        *)
LEMMA EndedKeeps ==
    ASSUME ObjectIInv, Ended, NEW committing \in BOOLEAN, Decides(committing),
           durable' = IF committing THEN durable \cup added[session] ELSE durable
    PROVE  ObjectIInv' /\ \A r \in Rows : Used(r) => Used(r)'
  <1> USE BoundsAssumption DEF ObjectIInv, ObjectTypeOK, Ended, Sessions, Depths, None
  <1>1. depth \in Depths /\ session \in Sessions /\ added[session] \subseteq staged[depth]
    BY DEF InnermostBlock
  <1>2. added'[session] = {} /\ staged'[depth] = {} /\ trouble'[session] = "none"
    BY <1>1
  <1>3. /\ \A n \in Sessions : n # session => added'[n] = added[n] /\ trouble'[n] = trouble[n]
        /\ \A d \in Depths : d # depth => staged'[d] = staged[d]
    OBVIOUS
  <1>4. /\ kept' \subseteq Rows /\ dropped' \subseteq Rows /\ durable' \subseteq Rows
        /\ doubtful' \subseteq Rows /\ unsure' \subseteq Rows
        /\ dropped' \cap durable' \subseteq unsure'
        /\ durable \subseteq durable' /\ unsure \subseteq unsure' /\ durable' \subseteq durable \cup staged[depth]
        /\ dropped' \subseteq dropped \cup staged[depth]
        /\ session # None /\ kept \subseteq durable \cup doubtful
             => kept' \subseteq durable' \cup doubtful'
    <2>1. durable' = IF committing /\ session # None THEN durable \cup added[session] ELSE durable
      BY <1>1
    <2> HIDE DEF ObjectIInv, ObjectTypeOK, Ended, Sessions, Depths, None
    <2>2. QED
      BY <1>1, <2>1, DecisionFacts
  <1>5. ObjectTypeOK'
    <2>1. /\ added' \in [Sessions -> SUBSET Rows] /\ staged' \in [Depths -> SUBSET Rows]
          /\ trouble' \in [Sessions -> {"none", "aborted", "poisoned"}]
          /\ holding' \subseteq Sessions
      BY <1>1
    <2>2. UNCHANGED <<session, made, state, depth, nested>>
      OBVIOUS
    <2>3. QED
      BY <1>4, <2>1, <2>2
  <1>6. SessionIsOpen' /\ SessionsAreCounted' /\ InnermostBlock' /\ DroppedIsGone'
    BY <1>1, <1>2, <1>4 DEF SessionIsOpen, SessionsAreCounted, InnermostBlock, DroppedIsGone
  <1>7. OnlyOpenOnesWork'
    BY <1>2, <1>3 DEF OnlyOpenOnesWork
  <1>8. StagedApart'
    <2>1. ASSUME NEW d \in 1..depth
          PROVE  staged'[d] \cap durable' \subseteq unsure' /\ staged'[d] \cap dropped' = {}
      BY <1>1, <1>2, <1>3, <1>4 DEF StagedApart
    <2>2. ASSUME NEW d \in 1..depth, NEW i \in 1..depth, i # d
          PROVE  staged'[i] \cap staged'[d] = {}
      BY <1>1, <1>2, <1>3, <2>2 DEF StagedApart
    <2>3. QED
      BY <2>1, <2>2 DEF StagedApart
  <1>9. \A r \in Rows : Used(r) => Used(r)'
    <2>1. kept \subseteq kept' /\ dropped \subseteq dropped' /\ staged[depth] \subseteq kept' \cup dropped'
      BY DEF Decides
    <2>2. QED
      BY <1>1, <1>3, <1>4, <2>1 DEF Used
  <1>10. AddedApart'
    <2>1. \A n \in Sessions : added'[n] \subseteq added[n]
      BY <1>2, <1>3
    <2>2. ASSUME NEW n \in Sessions PROVE added'[n] \cap durable' = {}
      <3>1. CASE n = session
        BY <1>2, <3>1
      <3>2. CASE n # session
        <4>1. added[n] \cap added[session] = {} /\ added[n] \cap durable = {}
          BY <1>1, <3>2 DEF AddedApart
        <4>2. QED
          BY <2>1, <4>1
      <3>3. QED
        BY <3>1, <3>2
    <2>3. ASSUME NEW n \in Sessions, NEW q \in added'[n] PROVE Used(q)'
      BY <1>9, <2>1 DEF AddedApart
    <2>4. ASSUME NEW n \in Sessions, NEW m \in Sessions, m # n
          PROVE  added'[m] \cap added'[n] = {}
      BY <2>1, <2>4 DEF AddedApart
    <2>5. QED
      BY <2>2, <2>3, <2>4 DEF AddedApart
  <1>11. UsedInTurn'
    <2>1. nested' = nested
      OBVIOUS
    <2>2. ASSUME ~nested
          PROVE  /\ kept' \subseteq durable' \cup doubtful'
                 /\ depth' = IF session' = None THEN 0 ELSE 1
                 /\ holding' \subseteq {session'}
      <3>1. /\ kept \subseteq durable \cup doubtful /\ holding \subseteq {session}
            /\ depth = IF session = None THEN 0 ELSE 1
        BY <2>2, Zenon DEF UsedInTurn, ObjectIInv
      <3>2. session # None /\ UNCHANGED <<session, depth>> /\ holding' = holding \ {session}
        OBVIOUS
      <3>3. kept' \subseteq durable' \cup doubtful'
        BY <1>4, <3>1, <3>2
      <3>4. QED
        BY <3>1, <3>2, <3>3
    <2> HIDE DEF ObjectIInv, ObjectTypeOK, Ended, Sessions, Depths, None
    <2>3. QED
      BY <2>1, <2>2, InTurn, Zenon
  <1>12. QED
    BY <1>5, <1>6, <1>7, <1>8, <1>9, <1>10, <1>11

LEMMA CollectKeeps ==
    ASSUME ObjectIInv, NEW n \in Sessions, Collect(n)
    PROVE  ObjectIInv' /\ \A r \in Rows : Used(r) => Used(r)'
  <1> USE DEF ObjectIInv, ObjectTypeOK, Collect, histories, Sessions, None
  <1>1. ObjectTypeOK' /\ SessionIsOpen' /\ DroppedIsGone' /\ SessionsAreCounted'
    BY DEF SessionIsOpen, DroppedIsGone, SessionsAreCounted
  <1>2. OnlyOpenOnesWork' /\ InnermostBlock'
    BY DEF OnlyOpenOnesWork, InnermostBlock
  <1>3. StagedApart' /\ AddedApart' /\ \A r \in Rows : Used(r) => Used(r)'
    BY DEF StagedApart, AddedApart, Used
  <1>4. UsedInTurn'
    BY DEF UsedInTurn
  <1>5. QED
    BY <1>1, <1>2, <1>3, <1>4

-----------------------------------------------------------------------------
(* The audit trail.                                                        *)

(* No two holders make the same dictionary.                                *)
LEMMA HoldersFacts ==
    /\ \A e \in Events : Caller(e) \in Holders /\ Event(e) \in Holders
    /\ \A r \in Rows : Row(r) \in Holders
    /\ \A e, f \in Events : Caller(e) # Event(f)
    /\ \A e, f \in Events : (Caller(e) = Caller(f) \/ Event(e) = Event(f)) => e = f
    /\ \A e \in Events, r \in Rows : Caller(e) # Row(r) /\ Event(e) # Row(r)
    /\ \A r, q \in Rows : Row(r) = Row(q) => r = q
  BY DEF Holders, Caller, Event, Row

(* What only concerns the events: nothing is recorded, flushed or ended.   *)
LEMMA EventsKeep ==
    ASSUME IInv, NEW e \in Events,
           Construct(e) \/ ConstructBare(e) \/ AlterCaller(e) \/ AlterEvent(e)
    PROVE  IInv'
  <1> USE DEF IInv, TypeOK
  <1>1. UNCHANGED <<object, row, time>>
    BY DEF Construct, ConstructBare, AlterCaller, AlterEvent, Alter
  <1>2. ObjectIInv' /\ TimesInOrder' /\ KnownOnce' /\ FlushedAsHanded'
    BY <1>1 DEF ObjectIInv, ObjectTypeOK, SessionIsOpen, DroppedIsGone, SessionsAreCounted,
       OnlyOpenOnesWork, InnermostBlock, StagedApart, AddedApart, UsedInTurn, Used,
       TimesInOrder, KnownOnce, Known, FlushedAsHanded, object, histories, row, time
  <1>3. TypeOK' /\ OwnDictionaries' /\ Validated'
    <2>1. /\ ObjectTypeOK'
          /\ of' = of /\ handed' = handed /\ stored' = stored /\ stamp' = stamp
          /\ begun' = begun /\ since' = since /\ now' = now
      BY <1>1, <1>2 DEF ObjectIInv, row, time
    <2> HIDE DEF IInv
    <2> USE HoldersFacts DEF Contents, OwnDictionaries, Validated
    <2>2. CASE Construct(e)
      <3>1. /\ dict' = [dict EXCEPT ![Event(e)] = Event(e)]
            /\ content' = [content EXCEPT ![Event(e)] = "fine"]
            /\ accepted' = accepted \cup {e} /\ bare' = bare /\ reached' = reached
        BY <2>2 DEF Construct, Copies
      <3>2. QED
        BY <2>1, <3>1 DEF IInv
    <2>3. CASE ConstructBare(e)
      <3>1. /\ dict' = [dict EXCEPT ![Event(e)] = Caller(e)]
            /\ content' = content
            /\ accepted' = accepted \cup {e} /\ bare' = bare \cup {e} /\ reached' = reached
        BY <2>3 DEF ConstructBare, Shares, IInv
      <3>2. QED
        BY <2>1, <3>1 DEF IInv
    <2>4. CASE AlterCaller(e)
      <3>1. /\ content' = [content EXCEPT ![Caller(e)] = "forbidden"]
            /\ dict' = dict /\ accepted' = accepted /\ bare' = bare /\ reached' = reached
        BY <2>4 DEF AlterCaller, Alter, IInv
      <3>2. QED
        BY <2>1, <3>1 DEF IInv
    <2>5. CASE AlterEvent(e)
      <3>1. /\ content' = [content EXCEPT ![dict[Event(e)]] = "forbidden"]
            /\ dict' = dict /\ accepted' = accepted /\ bare' = bare
            /\ reached' = reached \cup {e} /\ e \in accepted
        BY <2>5 DEF AlterEvent, Alter
      <3>2. QED
        BY <2>1, <3>1 DEF IInv
    <2>6. QED
      BY <2>2, <2>3, <2>4, <2>5
  <1>4. QED
    BY <1>2, <1>3

LEMMA RecordKeeps ==
    ASSUME IInv, NEW r \in Rows, NEW e \in Events, Record(r, e)
    PROVE  IInv'
  <1> USE DEF IInv, TypeOK
  <1>1. ObjectIInv' /\ \A q \in Rows : Used(q) => Used(q)'
    BY AddKeeps DEF Record
  <1>2. /\ ~Used(r) /\ r \notin durable /\ stamp[r] = 0
        /\ durable' = durable /\ state' = state
        /\ \A n \in Sessions : added'[n] \subseteq added[n] \cup {r}
    BY DEF Record, Add, Used, FlushedAsHanded, ObjectIInv, ObjectTypeOK
  <1>3. /\ e \in accepted
        /\ of' = [of EXCEPT ![r] = e]
        /\ handed' = [handed EXCEPT ![r] = content[dict[Event(e)]]]
        /\ dict' = [dict EXCEPT ![Row(r)] = Row(r)]
        /\ content' = [content EXCEPT ![Row(r)] = content[dict[Event(e)]]]
        /\ UNCHANGED <<accepted, bare, reached, stored, stamp, begun, since, now>>
    BY DEF Record, Copies, time
  <1>4. dict[Event(e)] \in Holders /\ content[dict[Event(e)]] \in Contents
    BY HoldersFacts
  <1>5. TypeOK'
    BY <1>1, <1>3, <1>4, HoldersFacts DEF ObjectIInv
  <1>6. OwnDictionaries'
    BY <1>3, <1>4, HoldersFacts DEF OwnDictionaries
  <1>7. content[dict[Event(e)]] = "fine" \/ e \in reached \cup bare
    BY <1>3 DEF OwnDictionaries, Validated
  <1>8. Validated'
    BY <1>3, <1>7, HoldersFacts DEF Validated
  <1>9. FlushedAsHanded'
    BY <1>1, <1>2, <1>3 DEF FlushedAsHanded
  <1>10. TimesInOrder'
    BY <1>2, <1>3 DEF TimesInOrder
  <1>11. KnownOnce'
    <2>1. \A q \in Rows : Known(q)' => Known(q) /\ q # r
      BY <1>2, <1>3 DEF Known
    <2>2. \A q \in Rows : q # r => of'[q] = of[q]
      BY <1>3
    <2>3. QED
      BY <2>1, <2>2 DEF KnownOnce
  <1>12. QED
    BY <1>1, <1>5, <1>6, <1>8, <1>9, <1>10, <1>11

LEMMA EnterBlockKeeps ==
    ASSUME IInv, EnterBlock
    PROVE  IInv'
  <1> USE DEF IInv, TypeOK
  <1>1. ObjectIInv' /\ \A q \in Rows : Used(q) => Used(q)'
    BY EnterKeeps DEF EnterBlock
  <1>2. /\ UNCHANGED <<event, row, begun, now>>
        /\ since' = [since EXCEPT ![made + 1] = now]
        /\ made + 1 \in Sessions
        /\ UNCHANGED <<durable, added>>
        /\ \A n \in Sessions : n # made + 1 => state'[n] = state[n]
    BY BoundsAssumption DEF EnterBlock, Enter, ObjectIInv, ObjectTypeOK, Sessions
  <1>3. TypeOK'
    BY <1>1, <1>2 DEF ObjectIInv, event, row
  <1>4. OwnDictionaries' /\ Validated'
    BY <1>2 DEF OwnDictionaries, Validated, event, row
  <1>5. FlushedAsHanded' /\ KnownOnce'
    BY <1>1, <1>2 DEF FlushedAsHanded, KnownOnce, Known, row
  <1>6. begun[made + 1] = 0
    BY <1>2 DEF TimesInOrder, SessionsAreCounted, ObjectIInv, ObjectTypeOK, Sessions
  <1>7. TimesInOrder'
    BY <1>2, <1>6 DEF TimesInOrder, row, Times
  <1>8. QED
    BY <1>1, <1>3, <1>4, <1>5, <1>7

(* Session n has no rows any more, and no other session is touched.        *)
Emptied(n) ==
    /\ added' = [added EXCEPT ![n] = {}]
    /\ \A m \in Sessions : m # n => state'[m] = state[m]

(* A transaction ends without a flush.                                     *)
LEMMA EndsKeeps ==
    ASSUME IInv, ObjectIInv', \A q \in Rows : Used(q) => Used(q)',
           NEW n \in Sessions, Ends(n), Emptied(n), UNCHANGED row, durable' = durable
    PROVE  IInv'
  <1> USE DEF IInv, TypeOK
  <1>1. /\ UNCHANGED <<event, row, now>>
        /\ begun' = [begun EXCEPT ![n] = 0] /\ since' = [since EXCEPT ![n] = now]
        /\ added'[n] = {} /\ \A m \in Sessions : m # n => added'[m] = added[m]
    BY DEF Ends, Emptied, ObjectIInv, ObjectTypeOK
  <1>2. TypeOK'
    BY <1>1 DEF ObjectIInv, event, row
  <1>3. OwnDictionaries' /\ Validated'
    BY <1>1 DEF OwnDictionaries, Validated, event, row
  <1>4. FlushedAsHanded'
    BY DEF FlushedAsHanded, row
  <1>5. TimesInOrder'
    BY <1>1 DEF TimesInOrder, row, Times, Emptied
  <1>6. KnownOnce'
    <2>1. \A q \in Rows : (Known(q)' => Known(q)) /\ of'[q] = of[q]
      BY <1>1 DEF Known, row
    <2>2. QED
      BY <2>1 DEF KnownOnce
  <1>7. QED
    BY <1>2, <1>3, <1>4, <1>5, <1>6

(* A flush the database accepts: every row of the session has the time of  *)
(* its transaction and what it was handed, and no event is there twice.    *)
LEMMA InsertedFacts ==
    ASSUME IInv, session # None, Accepts(session), Inserted(session)
    PROVE  /\ of' = of /\ handed' = handed
           /\ stamp' \in [Rows -> Times \cup {0}] /\ stored' \in [Rows -> Contents]
           /\ Began(session) \in Times /\ Began(session) \in since[session]..now
           /\ \A r \in added[session] :
                stamp'[r] = Began(session) /\ stored'[r] = handed[r]
           /\ \A r \in Rows \ added[session] : stamp'[r] = stamp[r] /\ stored'[r] = stored[r]
           /\ \A r, q \in Rows :
                (Known(r) \/ r \in added[session]) /\ (Known(q) \/ q \in added[session])
                /\ of[r] = of[q] => r = q
  <1> USE DEF IInv, TypeOK, None
  <1>1. session \in Sessions /\ added[session] \subseteq Rows /\ durable \subseteq Rows
    BY DEF ObjectTypeOK
  <1>2. of' = of /\ handed' = handed
    BY DEF Inserted
  <1>3. Began(session) \in Times /\ Began(session) \in since[session]..now
    BY <1>1 DEF Began, TimesInOrder, Times
  <1>4. ASSUME NEW r \in added[session]
        PROVE  stamp'[r] = Began(session) /\ stored'[r] = handed[r]
    <2>1. r \in Rows /\ (stamp[r] = 0 <=> r \in Pending(session))
      BY <1>1 DEF Pending
    <2>2. CASE stamp[r] = 0
      BY <2>1, <2>2 DEF Inserted, RecordedAt, OwnDictionaries
    <2>3. CASE stamp[r] # 0
      <3>1. stamp[r] = Began(session)
        BY <1>1, <2>3 DEF TimesInOrder, Began
      <3>2. stamp'[r] = stamp[r] /\ stored'[r] = stored[r]
        BY <2>1, <2>3 DEF Inserted
      <3>3. QED
        BY <2>1, <2>3, <3>1, <3>2 DEF FlushedAsHanded
    <2>4. QED
      BY <2>2, <2>3
  <1>5. \A r \in Rows \ added[session] : stamp'[r] = stamp[r] /\ stored'[r] = stored[r]
    BY DEF Inserted, Pending
  <1>6. /\ stamp' \in [Rows -> Times \cup {0}] /\ stored' \in [Rows -> Contents]
    <2>1. ASSUME NEW r \in Rows PROVE stamp'[r] \in Times \cup {0} /\ stored'[r] \in Contents
      BY <1>3, <1>4, <1>5
    <2>2. DOMAIN stamp' = Rows /\ DOMAIN stored' = Rows
          /\ stamp' = [r \in Rows |-> stamp'[r]] /\ stored' = [r \in Rows |-> stored'[r]]
      BY DEF Inserted
    <2>3. QED
      BY <2>1, <2>2
  <1>7. ASSUME NEW r \in Rows, NEW q \in Rows, of[r] = of[q],
               Known(r) \/ r \in added[session], Known(q), r # q
        PROVE  FALSE
    <2>1. ~Known(r) /\ r \in Pending(session)
      BY <1>1, <1>7 DEF KnownOnce, Known, Pending
    <2>2. q \notin added[session] \cup durable
      BY <1>7, <2>1 DEF Accepts, Refused
    <2>3. PICK m \in Sessions : q \in added[m] /\ stamp[q] # 0
      BY <1>7, <2>2 DEF Known
    <2>4. m # session
      BY <2>2, <2>3
    <2>5. Waits(session)
      BY <1>7, <2>1, <2>3, <2>4 DEF Waits
    <2>6. QED
      BY <2>5 DEF Accepts
  <1>8. ASSUME NEW r \in added[session], NEW q \in added[session], of[r] = of[q], r # q
        PROVE  FALSE
    <2>1. r \notin Pending(session) /\ q \notin Pending(session)
      BY <1>8 DEF Accepts, Refused
    <2>2. Known(r) /\ Known(q)
      BY <1>1, <2>1 DEF Known, Pending
    <2>3. QED
      BY <1>1, <1>8, <2>2 DEF KnownOnce
  <1>9. QED
    BY <1>2, <1>3, <1>4, <1>5, <1>6, <1>7, <1>8

LEMMA CommitKeeps ==
    ASSUME IInv, ObjectIInv', \A q \in Rows : Used(q) => Used(q)',
           session # None, Accepts(session), Inserted(session),
           Ends(session), Emptied(session), durable' = durable \cup added[session]
    PROVE  IInv'
  <1> USE DEF IInv, TypeOK, None
  <1>1. /\ UNCHANGED <<event, now>> /\ session \in Sessions
        /\ begun' = [begun EXCEPT ![session] = 0] /\ since' = [since EXCEPT ![session] = now]
        /\ added'[session] = {} /\ \A m \in Sessions : m # session => added'[m] = added[m]
        /\ added[session] \subseteq Rows
    BY DEF Ends, Emptied, ObjectTypeOK
  <1>2. TypeOK'
    BY <1>1, InsertedFacts DEF ObjectIInv, event
  <1>3. OwnDictionaries' /\ Validated'
    BY <1>1, InsertedFacts DEF OwnDictionaries, Validated, event
  <1>4. \A r \in added[session] : Used(r) /\ stamp'[r] # 0
    BY <1>1, InsertedFacts DEF AddedApart, ObjectIInv, Times
  <1>5. FlushedAsHanded'
    <2>1. ASSUME NEW r \in Rows, stamp'[r] # 0 PROVE stored'[r] = handed'[r] /\ Used(r)'
      BY <1>4, <2>1, InsertedFacts DEF FlushedAsHanded
    <2>2. ASSUME NEW r \in durable' PROVE stamp'[r] # 0
      BY <1>1, <1>4, InsertedFacts DEF FlushedAsHanded, ObjectTypeOK
    <2>3. QED
      BY <2>1, <2>2 DEF FlushedAsHanded
  <1>6. TimesInOrder'
    <2>1. ASSUME NEW m \in Sessions, m # session, NEW r \in added[m] PROVE stamp'[r] = stamp[r]
      BY <1>1, <2>1, InsertedFacts DEF AddedApart, ObjectIInv, ObjectTypeOK
    <2>2. QED
      BY <1>1, <2>1 DEF TimesInOrder, Times, Emptied
  <1>7. KnownOnce'
    <2>1. ASSUME NEW q \in Rows, Known(q)' PROVE Known(q) \/ q \in added[session]
      BY <1>1, <2>1, InsertedFacts DEF Known
    <2>2. QED
      BY <2>1, InsertedFacts DEF KnownOnce
  <1>8. QED
    BY <1>2, <1>3, <1>5, <1>6, <1>7

LEMMA FlushKeeps ==
    ASSUME IInv, FlushAndQuery
    PROVE  IInv'
  <1> USE DEF IInv, TypeOK, None
  <1>1. ObjectIInv' /\ \A q \in Rows : Used(q) => Used(q)'
    BY QueryKeeps DEF FlushAndQuery
  <1>2. /\ session # None /\ session \in Sessions /\ Accepts(session) /\ Inserted(session)
        /\ begun' = [begun EXCEPT ![session] = Began(session)]
        /\ UNCHANGED <<event, since, now, added, state, durable>>
        /\ added[session] \subseteq Rows
    BY DEF FlushAndQuery, Query, ObjectTypeOK
  <1>3. TypeOK'
    BY <1>1, <1>2, InsertedFacts DEF ObjectIInv, event
  <1>4. OwnDictionaries' /\ Validated'
    BY <1>2, InsertedFacts DEF OwnDictionaries, Validated, event
  <1>5. FlushedAsHanded'
    <2>1. \A r \in added[session] : Used(r) /\ r \notin durable
      BY <1>2 DEF AddedApart, ObjectIInv
    <2>2. ASSUME NEW r \in Rows, stamp'[r] # 0 PROVE stored'[r] = handed'[r] /\ Used(r)'
      BY <1>1, <1>2, <2>1, <2>2, InsertedFacts DEF FlushedAsHanded
    <2>3. ASSUME NEW r \in durable' PROVE stamp'[r] # 0
      BY <1>2, <2>1, InsertedFacts DEF FlushedAsHanded, ObjectTypeOK
    <2>4. QED
      BY <2>2, <2>3 DEF FlushedAsHanded
  <1>6. TimesInOrder'
    <2>1. ASSUME NEW m \in Sessions, m # session, NEW r \in added[m] PROVE stamp'[r] = stamp[r]
      BY <1>2, <2>1, InsertedFacts DEF AddedApart, ObjectIInv, ObjectTypeOK
    <2>2. state[session] = "open"
      BY <1>2 DEF SessionIsOpen, ObjectIInv
    <2>3. QED
      BY <1>2, <2>1, <2>2, InsertedFacts DEF TimesInOrder, Times
  <1>7. KnownOnce'
    <2>1. ASSUME NEW q \in Rows, Known(q)' PROVE Known(q) \/ q \in added[session]
      BY <1>2, <2>1, InsertedFacts DEF Known
    <2>2. QED
      BY <1>2, <2>1, InsertedFacts DEF KnownOnce
  <1>8. QED
    BY <1>1, <1>3, <1>4, <1>5, <1>6, <1>7

-----------------------------------------------------------------------------
(* Every step.                                                             *)

(* How a block is left, as ExitKeeps wants it.                             *)
LEMMA LeavingKeeps ==
    ASSUME ObjectIInv, ExitClean \/ ExitPretending \/ ExitRaise \/ ExitUnacknowledged
    PROVE  ObjectIInv' /\ \A r \in Rows : Used(r) => Used(r)'
  <1>1. ASSUME ExitClean PROVE Exit(TRUE) /\ Decides(TRUE)
    BY <1>1 DEF ExitClean, Decides
  <1>2. ASSUME ExitPretending PROVE Exit(FALSE) /\ Decides(FALSE)
    BY <1>2 DEF ExitPretending, Decides
  <1>3. ASSUME ExitRaise PROVE Exit(FALSE) /\ Decides(FALSE)
    BY <1>3 DEF ExitRaise, Decides
  <1>4. ASSUME ExitUnacknowledged PROVE Exit(TRUE) /\ Decides(TRUE)
    <2>1. added[session] = staged[depth]
      BY <1>4 DEF ExitUnacknowledged, Trusted, ObjectIInv, InnermostBlock
    <2>2. QED
      BY <1>4, <2>1 DEF ExitUnacknowledged, Decides
  <1>5. QED
    BY <1>1, <1>2, <1>3, <1>4, ExitKeeps

(* How a transaction ends inside its block, as EndedKeeps wants it.        *)
LEMMA EndingKeeps ==
    ASSUME ObjectIInv, Checkpoint \/ CheckpointPretending \/ Rollback
    PROVE  ObjectIInv' /\ \A r \in Rows : Used(r) => Used(r)'
  <1>1. ASSUME Checkpoint
        PROVE  Ended /\ Decides(TRUE) /\ durable' = durable \cup added[session]
    BY <1>1 DEF Checkpoint, Decides, Ended
  <1>2. ASSUME CheckpointPretending PROVE Ended /\ Decides(FALSE) /\ durable' = durable
    BY <1>2 DEF CheckpointPretending, Decides, Ended
  <1>3. ASSUME Rollback PROVE Ended /\ Decides(FALSE) /\ durable' = durable
    BY <1>3 DEF Rollback, Decides, Ended
  <1>4. QED
    BY <1>1, <1>2, <1>3, EndedKeeps

(* How a call fails, as BreaksKeeps wants it.                              *)
LEMMA FailingKeeps ==
    ASSUME ObjectIInv, StatementFails \/ FlushFails \/ CheckpointUnacknowledged
    PROVE  ObjectIInv' /\ \A r \in Rows : Used(r) => Used(r)'
  <1>1. CASE StatementFails
    BY <1>1, BreaksKeeps DEF StatementFails
  <1>2. CASE FlushFails
    BY <1>2, BreaksKeeps DEF FlushFails
  <1>3. CASE CheckpointUnacknowledged
    BY <1>3, BreaksKeeps DEF CheckpointUnacknowledged
  <1>4. QED
    BY <1>1, <1>2, <1>3

(* What a step commits is what the session of the object has, flushed in   *)
(* the same step, and nothing else is ever committed.                      *)
Commits ==
    /\ session # None /\ Accepts(session) /\ Inserted(session)
    /\ Ends(session) /\ Emptied(session)
    /\ durable' = durable \cup added[session]

LEMMA CommittingCommits ==
    ASSUME ObjectIInv,
           CommitEarly \/ CommitEarlyUnacknowledged \/ LeaveCommitting \/ LeaveUnacknowledged
    PROVE  Commits
  <1> USE DEF Commits, Emptied, ObjectIInv, ObjectTypeOK
  <1>1. CASE CommitEarly
    BY <1>1 DEF CommitEarly, Checkpoint, Ended
  <1>2. CASE CommitEarlyUnacknowledged
    BY <1>2 DEF CommitEarlyUnacknowledged, CheckpointUnacknowledged, Breaks
  <1>3. CASE LeaveCommitting
    BY <1>3 DEF LeaveCommitting, ExitClean, Exit, Close
  <1>4. CASE LeaveUnacknowledged
    BY <1>4 DEF LeaveUnacknowledged, ExitUnacknowledged, Exit, Close
  <1>5. QED
    BY <1>1, <1>2, <1>3, <1>4

(* A step that gives up the rows of a session.                             *)
GivesUp(n) == Ends(n) /\ Emptied(n) /\ UNCHANGED row /\ durable' = durable

Losing ==
    \/ RollbackEarly \/ CommitEarlyPretending \/ CallFails
    \/ LeavePretending \/ LeaveRaising

LEMMA GivingUpGivesUp ==
    ASSUME ObjectIInv
    PROVE  /\ Losing => session \in Sessions /\ GivesUp(session)
           /\ \A n \in Sessions : CollectSession(n) => GivesUp(n)
  <1> USE DEF GivesUp, Emptied, ObjectIInv, ObjectTypeOK
  <1>1. ASSUME RollbackEarly PROVE session \in Sessions /\ GivesUp(session)
    BY <1>1 DEF RollbackEarly, Rollback, Ended
  <1>2. ASSUME CommitEarlyPretending PROVE session \in Sessions /\ GivesUp(session)
    BY <1>2 DEF CommitEarlyPretending, CheckpointPretending, Ended
  <1>3. ASSUME CallFails PROVE session \in Sessions /\ GivesUp(session)
    BY <1>3 DEF CallFails, FlushFails, Breaks
  <1>4. ASSUME LeavePretending PROVE session \in Sessions /\ GivesUp(session)
    BY <1>4 DEF LeavePretending, ExitPretending, Pretends, Exit, Close
  <1>5. ASSUME LeaveRaising PROVE session \in Sessions /\ GivesUp(session)
    BY <1>5 DEF LeaveRaising, ExitRaise, Exit, Close
  <1>6. ASSUME NEW n \in Sessions, CollectSession(n) PROVE GivesUp(n)
    BY <1>6 DEF CollectSession, Collect
  <1>7. QED
    BY <1>1, <1>2, <1>3, <1>4, <1>5, <1>6 DEF Losing

(* A query that fails: the transaction has begun, and has no rows.         *)
LEMMA QueryFailsKeeps ==
    ASSUME IInv, QueryFails
    PROVE  IInv' /\ durable' = durable
  <1> USE DEF IInv, TypeOK, None
  <1>1. ObjectIInv' /\ \A q \in Rows : Used(q) => Used(q)'
    BY FailingKeeps DEF QueryFails
  <1>2. /\ UNCHANGED <<event, row, since, now, durable, state>>
        /\ begun' = [begun EXCEPT ![session] = Began(session)]
        /\ session \in Sessions /\ state[session] = "open"
        /\ added'[session] = {} /\ \A m \in Sessions : m # session => added'[m] = added[m]
    BY DEF QueryFails, StatementFails, Breaks, ObjectIInv, ObjectTypeOK, SessionIsOpen
  <1>3. Began(session) \in Times /\ Began(session) \in since[session]..now
    BY <1>2 DEF Began, TimesInOrder, Times
  <1>4. TypeOK'
    BY <1>1, <1>2, <1>3 DEF ObjectIInv, event, row
  <1>5. OwnDictionaries' /\ Validated'
    BY <1>2 DEF OwnDictionaries, Validated, event, row
  <1>6. FlushedAsHanded'
    BY <1>1, <1>2 DEF FlushedAsHanded, row
  <1>7. TimesInOrder'
    BY <1>2, <1>3 DEF TimesInOrder, row, Times
  <1>8. KnownOnce'
    <2>1. \A q \in Rows : (Known(q)' => Known(q)) /\ of'[q] = of[q]
      BY <1>2 DEF Known, row
    <2>2. QED
      BY <2>1 DEF KnownOnce
  <1>9. QED
    BY <1>1, <1>2, <1>4, <1>5, <1>6, <1>7, <1>8

LEMMA LeaveEmptyKeeps ==
    ASSUME IInv, LeaveEmpty
    PROVE  IInv' /\ durable' = durable
  <1> USE DEF IInv, TypeOK
  <1>1. ObjectIInv' /\ \A q \in Rows : Used(q) => Used(q)'
    BY LeavingKeeps DEF LeaveEmpty
  <1>2. UNCHANGED <<event, row, time, state, added, durable>>
    BY DEF LeaveEmpty, ExitClean, ExitRaise, Exit
  <1>3. TypeOK'
    BY <1>1, <1>2 DEF ObjectIInv, event, row, time
  <1>4. OwnDictionaries' /\ Validated' /\ TimesInOrder'
    BY <1>2 DEF OwnDictionaries, Validated, TimesInOrder, event, row, time
  <1>5. FlushedAsHanded' /\ KnownOnce'
    BY <1>1, <1>2 DEF FlushedAsHanded, KnownOnce, Known, row
  <1>6. QED
    BY <1>1, <1>2, <1>3, <1>4, <1>5

LEMMA TickKeeps ==
    ASSUME IInv, Tick \/ UNCHANGED vars
    PROVE  IInv' /\ durable' = durable
  <1> USE MaxTimeAssumption DEF IInv, TypeOK, Times
  <1>1. /\ UNCHANGED <<object, event, row, begun, since>>
        /\ now' \in Times /\ now <= now'
    BY DEF Tick, vars, time
  <1>2. ObjectIInv' /\ OwnDictionaries' /\ Validated' /\ FlushedAsHanded' /\ KnownOnce'
    BY <1>1 DEF ObjectIInv, ObjectTypeOK, SessionIsOpen, DroppedIsGone, SessionsAreCounted,
       OnlyOpenOnesWork, InnermostBlock, StagedApart, AddedApart, UsedInTurn, Used,
       OwnDictionaries, Validated, KnownOnce, Known, FlushedAsHanded, object, histories, event, row
  <1>3. TypeOK'
    BY <1>1, <1>2 DEF ObjectIInv, event, row
  <1>4. TimesInOrder'
    BY <1>1 DEF TimesInOrder, object, row
  <1>5. QED
    BY <1>1, <1>2, <1>3, <1>4 DEF object

LEMMA StepKeeps ==
    ASSUME IInv, [Next]_vars
    PROVE  IInv' /\ (durable' = durable \/ Commits)
  <1> USE DEF IInv
  <1>1. ASSUME NEW e \in Events,
               Construct(e) \/ ConstructBare(e) \/ AlterCaller(e) \/ AlterEvent(e)
        PROVE  IInv' /\ durable' = durable
    <2>1. durable' = durable
      BY <1>1 DEF Construct, ConstructBare, AlterCaller, AlterEvent, Alter, object
    <2>2. QED
      BY <1>1, <2>1, EventsKeep
  <1>2. ASSUME NEW r \in Rows, NEW e \in Events, Record(r, e)
        PROVE  IInv' /\ durable' = durable
    BY <1>2, RecordKeeps DEF Record, Add
  <1>3. CASE EnterBlock
    BY <1>3, EnterBlockKeeps DEF EnterBlock, Enter
  <1>4. CASE FlushAndQuery
    BY <1>4, FlushKeeps DEF FlushAndQuery, Query
  <1>5. CASE CommitEarly \/ CommitEarlyUnacknowledged \/ LeaveCommitting \/ LeaveUnacknowledged
    <2>1. Commits
      BY <1>5, CommittingCommits
    <2>2. ObjectIInv' /\ \A q \in Rows : Used(q) => Used(q)'
      BY <1>5, LeavingKeeps, EndingKeeps, FailingKeeps
         DEF CommitEarly, CommitEarlyUnacknowledged, LeaveCommitting, LeaveUnacknowledged
    <2>3. QED
      BY <2>1, <2>2, CommitKeeps DEF Commits
  <1>6. CASE Losing
    <2>1. session \in Sessions /\ GivesUp(session)
      BY <1>6, GivingUpGivesUp
    <2>2. ObjectIInv' /\ \A q \in Rows : Used(q) => Used(q)'
      BY <1>6, LeavingKeeps, EndingKeeps, FailingKeeps
         DEF Losing, RollbackEarly, CommitEarlyPretending, CallFails, LeavePretending, LeaveRaising
    <2>3. QED
      BY <2>1, <2>2, EndsKeeps DEF GivesUp
  <1>7. ASSUME NEW n \in Sessions, CollectSession(n) PROVE IInv' /\ durable' = durable
    BY <1>7, GivingUpGivesUp, CollectKeeps, EndsKeeps DEF GivesUp, CollectSession
  <1>8. QED
    BY <1>1, <1>2, <1>3, <1>4, <1>5, <1>6, <1>7, QueryFailsKeeps, LeaveEmptyKeeps, TickKeeps
       DEF Next, Losing

LEMMA InitKeeps == Init => IInv
  <1> SUFFICES ASSUME Init PROVE IInv
    OBVIOUS
  <1> USE BoundsAssumption, MaxTimeAssumption
      DEF Init, ObjectInit, Sessions, Depths, None, Times, Contents
  <1>1. TypeOK
    <2>1. ObjectTypeOK
      <3>1. /\ state \in [Sessions -> {"unmade", "open", "closed"}]
            /\ added \in [Sessions -> SUBSET Rows] /\ staged \in [Depths -> SUBSET Rows]
            /\ trouble \in [Sessions -> {"none", "aborted", "poisoned"}]
        OBVIOUS
      <3>2. /\ session = 0 /\ made \in 0..MaxSessions /\ depth \in 0..MaxDepth
            /\ holding = {} /\ kept = {} /\ dropped = {} /\ durable = {}
            /\ doubtful = {} /\ unsure = {}
        OBVIOUS
      <3>3. nested \in BOOLEAN
        BY Zenon
      <3>4. QED
        BY <3>1, <3>2, <3>3 DEF ObjectTypeOK
    <2>2. of \in [Rows -> Events]
      OBVIOUS
    <2>3. stored \in [Rows -> Contents] /\ handed \in [Rows -> Contents]
      OBVIOUS
    <2>4. dict \in [Holders -> Holders] /\ content \in [Holders -> Contents]
      OBVIOUS
    <2>5. QED
      BY <2>1, <2>2, <2>3, <2>4 DEF TypeOK
  <1>2. ObjectIInv
    BY <1>1 DEF TypeOK, ObjectIInv, SessionIsOpen, DroppedIsGone, SessionsAreCounted,
       OnlyOpenOnesWork, InnermostBlock, StagedApart, AddedApart, UsedInTurn
  <1>3. OwnDictionaries /\ Validated /\ FlushedAsHanded
    BY HoldersFacts DEF OwnDictionaries, Validated, FlushedAsHanded
  <1>4. TimesInOrder /\ KnownOnce
    BY DEF TimesInOrder, KnownOnce, Known
  <1>5. QED
    BY <1>1, <1>2, <1>3, <1>4 DEF IInv

(* The strengthening the properties follow from.                           *)
THEOREM Inductive == Spec => []IInv
  BY InitKeeps, StepKeeps, PTL DEF Spec

-----------------------------------------------------------------------------
(* What follows, for any number of rows, events and sessions.              *)

(* models.py:40-64 with unit_of_work.py:31-72: every variable stays within *)
(* its type.                                                               *)
THEOREM TypeCorrect == Spec => []TypeOK
  <1>1. IInv => TypeOK
    BY DEF IInv
  <1>2. QED
    BY <1>1, Inductive, PTL

(* unit_of_work.py:31-72: however often and however deep the object is     *)
(* entered, it stands for an open session or for none.                     *)
THEOREM ObjectNamesAnOpenSession == Spec => []SessionIsOpen
  <1>1. IInv => SessionIsOpen
    BY DEF IInv, ObjectIInv
  <1>2. QED
    BY <1>1, Inductive, PTL

(* unit_of_work.py:56-82: what was rolled back is in the table only if a   *)
(* COMMIT of it, in the block or at its end, was carried out and its       *)
(* answer lost.                                                            *)
THEOREM DroppedStaysDropped == Spec => []DroppedIsGone
  <1>1. IInv => DroppedIsGone
    BY DEF IInv, ObjectIInv
  <1>2. QED
    BY <1>1, Inductive, PTL

(* unit_of_work.py:31-78: an object that is used in turn has committed what*)
(* its blocks kept, but for a block that went on after a failed query, and *)
(* has no session and no connection between two blocks.                    *)
THEOREM UseInTurnIsSafe == Spec => []ReuseIsSafe
  <1>1. IInv => ReuseIsSafe
    <2>1. SUFFICES ASSUME IInv, ~nested
                   PROVE  /\ kept \subseteq durable \cup doubtful
                          /\ depth = 0 => session = None /\ holding = {}
      BY Zenon DEF ReuseIsSafe
    <2>2. /\ kept \subseteq durable \cup doubtful /\ holding \subseteq {session}
          /\ depth = IF session = None THEN 0 ELSE 1
      BY <2>1, Zenon DEF IInv, ObjectIInv, UsedInTurn
    <2>3. holding \subseteq Sessions
      BY <2>1 DEF IInv, ObjectIInv, ObjectTypeOK
    <2>4. depth = 0 => session = None /\ holding = {}
      BY <2>2, <2>3 DEF Sessions, None
    <2>5. QED
      BY <2>2, <2>4
  <1>2. QED
    BY <1>1, Inductive, PTL

LEMMA DurableFacts ==
    ASSUME IInv, NEW r \in durable
    PROVE  r \in Rows /\ stored[r] = handed[r]
  BY DEF IInv, TypeOK, ObjectTypeOK, FlushedAsHanded

(* sink.py:16-36: what is in the table is what record() was given, whatever*)
(* became of the dictionaries since.                                       *)
THEOREM TableHasWhatWasAsserted == Spec => []StoredIsAsserted
  <1>1. IInv => StoredIsAsserted
    BY DurableFacts DEF IInv, StoredIsAsserted
  <1>2. QED
    BY <1>1, Inductive, PTL

(* audit.py:137-160, models.py:63-64: what is in the table passed the      *)
(* checks of the event, unless somebody reached into it.                   *)
THEOREM TableHasWhatWasValidated == Spec => []ValidatedIsStored
  <1>1. IInv => ValidatedIsStored
    BY DurableFacts DEF IInv, Validated, ValidatedIsStored
  <1>2. QED
    BY <1>1, Inductive, PTL

(* sink.py:28 with models.py:34: however often a unit is tried again, an   *)
(* event is in the table once.                                             *)
THEOREM TableHasEventsOnce == Spec => []RecordedOnce
  <1>1. IInv => RecordedOnce
    BY DurableFacts DEF IInv, KnownOnce, Known, RecordedOnce
  <1>2. QED
    BY <1>1, Inductive, PTL

LEMMA StampFacts ==
    ASSUME IInv, Commits, NEW r \in durable' \ durable
    PROVE  session # None /\ stamp'[r] = Began(session) /\ stamp'[r] \in since[session]..now
  BY InsertedFacts DEF Commits

(* base.py:62-64 with models.py:40-43: the rows of one commit carry one    *)
(* time, however many flushes they took.                                   *)
THEOREM CommitHasOneStamp == Spec => OneStampPerTransaction
  <1>1. IInv /\ [Next]_vars => [\A r, q \in durable' \ durable : stamp'[r] = stamp'[q]]_vars
    BY StampFacts, StepKeeps
  <1>2. QED
    BY <1>1, Inductive, PTL DEF Spec, OneStampPerTransaction

(* models.py:40-43: that time lies between the beginning of what the       *)
(* commit ends and the commit.                                             *)
THEOREM StampsAreOfTheirUnit == Spec => StampsLieInTheirUnit
  <1>1. IInv /\ [Next]_vars => [\A r \in durable' \ durable :
              session # None /\ stamp'[r] \in since[session]..now]_vars
    BY StampFacts, StepKeeps
  <1>2. QED
    BY <1>1, Inductive, PTL DEF Spec, StampsLieInTheirUnit
=============================================================================
