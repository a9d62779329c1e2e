------------------------ MODULE RequestContextProofs ------------------------
(***************************************************************************)
(* What holds of the correlation identifiers for any threads, applications *)
(* and levels, however many requests there are and however deep they nest. *)
(***************************************************************************)
EXTENDS RequestContext, SequenceTheorems, FiniteSetTheorems, TLAPS

Depth(t) == Len(stack[t])

(* The application context of a request is its own or an outer request's.  *)
StackTypeOK ==
    /\ stack \in [Threads -> Seq(Requests)]
    /\ \A t \in Threads : \A n \in 1..Depth(t) : stack[t][n].g <= n

(* Whoever handles a request was created.                                  *)
Served == \A t \in Threads : stack[t] # <<>> => created # {}

(* Once an application was created, the levels are some application's, and *)
(* there is a handler unless one is being replaced.                        *)
LoggingReady ==
    /\ \A a \in Apps : step[a] # "none" => wanted[a] <= quietest
    /\ created # {} => level <= quietest
    /\ (\E a \in Apps : step[a] # "none") => filter <= quietest
    /\ (\E a \in Apps : step[a] \in {"added", "done"}) =>
           handlers # {} \/ \E a \in Apps : step[a] = "removing"

(* A configuration that has the logging to itself finds what the one before*)
(* it left.                                                                *)
Alone ==
    /\ overlap # "now" =>
         \A a \in Configuring :
             /\ \A b \in Configuring : b = a
             /\ latest = a /\ filter = wanted[a]
             /\ step[a] = "removing" => handlers = existing[a]
             /\ step[a] = "added" => handlers = {a}
    /\ overlap = "never" => \A g \in handlers : \A h \in handlers : g = h

LoggingInv == LoggingReady /\ Alone /\ LastCallWins

(* While no request shares the g of another: each has its own, with its    *)
(* identifier and that of the request around it, and what is bound is the  *)
(* identifier of the innermost.                                            *)
Around(t, n) == IF n = 0 THEN None ELSE stack[t][n].id

OwnContexts == ~shared => \A t \in Threads :
    /\ current[t] = Around(t, Depth(t))
    /\ \A n \in 1..Depth(t) :
         /\ stack[t][n].g = n
         /\ stack[t][n].correlation_id = stack[t][n].id
         /\ stack[t][n].correlation_token = Around(t, n - 1)
         /\ stack[t][n].body \in {None, stack[t][n].id}

HeadersAreIds == ~shared => \A a \in answers : a.header = a.to

(* The detail of an error that is not told is in the log before anybody is *)
(* answered.                                                               *)
DetailsAreLogged ==
    ~shared /\ quietest <= Error => \A t \in Threads : \A n \in 1..Depth(t) :
        stack[t][n].generic =>
            /\ stack[t][n].body = stack[t][n].id
            /\ \E r \in records : r.made = stack[t][n].id /\ r.event = "detail"

IInv ==
    /\ TypeOK /\ StackTypeOK /\ OwnContexts
    /\ Served /\ LoggingInv
    /\ RecordsAreAttributed /\ RecordsAreWrittenOnce
    /\ HeadersAreIds /\ AnswersNameTheirRequest
    /\ DetailsAreLogged /\ GenericAnswersAreTraceable

-----------------------------------------------------------------------------
(* The logging.                                                            *)

(* Between the steps of configurations it stays what it was.               *)
LEMMA LoggingStays ==
    ASSUME LoggingTypeOK, LoggingInv, UNCHANGED logging
    PROVE  /\ LoggingTypeOK' /\ LoggingInv' /\ created' = created
           /\ quietest \in Info..Critical /\ quietest' = quietest
  <1>1. UNCHANGED <<step, wanted, existing, filter, level, handlers, quietest, latest, overlap>>
    BY DEF logging
  <1>2. created' = created /\ Configuring' = Configuring
    BY <1>1 DEF created, Configuring
  <1>3. LoggingTypeOK'
    BY <1>1 DEF LoggingTypeOK
  <1>4. LoggingReady'
    BY <1>1, <1>2 DEF LoggingInv, LoggingReady
  <1>5. Alone' /\ LastCallWins'
    BY <1>1, <1>2 DEF LoggingInv, Alone, LastCallWins
  <1>6. QED
    BY <1>1, <1>2, <1>3, <1>4, <1>5 DEF LoggingInv, LoggingTypeOK

LEMMA InitiallyNoLogging == LoggingInit => LoggingTypeOK /\ LoggingInv /\ created = {}
  <1> SUFFICES ASSUME LoggingInit PROVE LoggingTypeOK /\ LoggingInv /\ created = {}
    OBVIOUS
  <1>1. LoggingTypeOK
    BY DEF LoggingInit, LoggingTypeOK, Info, Warning, Critical
  <1>2. created = {} /\ Configuring = {} /\ \A a \in Apps : step[a] = "none"
    BY DEF LoggingInit, created, Configuring
  <1>3. LoggingReady
    BY <1>2 DEF LoggingReady
  <1>4. Alone /\ LastCallWins
    BY <1>2 DEF LoggingInit, Alone, LastCallWins
  <1>5. QED
    BY <1>1, <1>2, <1>3, <1>4 DEF LoggingInv

(* A configuration begins.                                                 *)
LEMMA ConfigureStep ==
    ASSUME LoggingTypeOK, LoggingInv, NEW a \in Apps, NEW l \in LogLevels, Configure(a, l)
    PROVE  /\ LoggingTypeOK' /\ LoggingInv' /\ created' = created
           /\ quietest <= quietest'
  <1>1. /\ step[a] = "none" /\ step' = [step EXCEPT ![a] = "filtered"]
        /\ wanted' = [wanted EXCEPT ![a] = l] /\ filter' = l
        /\ quietest' = IF l > quietest THEN l ELSE quietest
        /\ latest' = a
        /\ UNCHANGED <<existing, level, handlers>>
    BY DEF Configure
  <1>2. l \in Info..Critical /\ quietest \in Info..Critical
    BY LogLevelsAssumption DEF LoggingTypeOK
  <1>3. quietest' \in Info..Critical /\ quietest <= quietest' /\ l <= quietest'
    BY <1>1, <1>2 DEF Info, Critical
  <1>4. /\ step'[a] = "filtered" /\ wanted'[a] = l
        /\ \A b \in Apps : b # a => step'[b] = step[b] /\ wanted'[b] = wanted[b]
    BY <1>1 DEF LoggingTypeOK
  <1>5. /\ created' = created /\ a \in Configuring'
        /\ Configuring' = Configuring \cup {a} /\ a \notin Configuring
    BY <1>1, <1>4 DEF created, Configuring
  <1>6. /\ overlap' \in {"never", "before", "now"}
        /\ overlap' # "now" => Configuring = {}
        /\ overlap' = "never" => overlap = "never"
    BY DEF Configure, LoggingTypeOK
  <1>7. LoggingTypeOK'
    BY <1>1, <1>2, <1>3, <1>6 DEF LoggingTypeOK
  <1>8. LoggingReady'
    <2>1. \A b \in Apps : step'[b] # "none" => wanted'[b] <= quietest'
      <3>1. \A b \in Apps : wanted[b] \in Info..Critical
        BY DEF LoggingTypeOK
      <3>2. \A b \in Apps : step[b] # "none" => wanted[b] <= quietest
        BY DEF LoggingInv, LoggingReady
      <3>3. QED
        BY <1>2, <1>3, <1>4, <3>1, <3>2 DEF Info, Critical
    <2>2. created # {} => level <= quietest'
      BY <1>2, <1>3 DEF LoggingInv, LoggingReady, LoggingTypeOK, Info, Critical
    <2>3. filter' <= quietest'
      BY <1>1, <1>3
    <2>4. (\E b \in Apps : step'[b] \in {"added", "done"}) =>
             handlers # {} \/ \E b \in Apps : step'[b] = "removing"
      BY <1>1, <1>4, Zenon DEF LoggingInv, LoggingReady
    <2>5. QED
      BY <1>1, <1>5, <2>1, <2>2, <2>3, <2>4 DEF LoggingReady
  <1>9. Alone'
    <2>1. ASSUME overlap' # "now", NEW b \in Configuring'
          PROVE  /\ \A c \in Configuring' : c = b
                 /\ latest' = b /\ filter' = wanted'[b] /\ step'[b] = "filtered"
      BY <1>1, <1>4, <1>5, <1>6, <2>1
    <2>2. overlap' = "never" => \A g \in handlers' : \A h \in handlers' : g = h
      BY <1>1, <1>6 DEF LoggingInv, Alone
    <2>3. QED
      BY <2>1, <2>2 DEF Alone
  <1>10. LastCallWins'
    BY <1>5 DEF LastCallWins
  <1>11. QED
    BY <1>3, <1>5, <1>7, <1>8, <1>9, <1>10 DEF LoggingInv

(* It replaces the handlers ...                                            *)
LEMMA ReplaceStep ==
    ASSUME LoggingTypeOK, LoggingInv, NEW a \in Apps,
           ListHandlers(a) \/ RemoveHandler(a) \/ AddHandler(a)
    PROVE  /\ LoggingTypeOK' /\ LoggingInv' /\ created' = created
           /\ quietest <= quietest'
  <1>1. /\ UNCHANGED <<wanted, filter, level, quietest, latest, overlap>>
        /\ quietest \in Info..Critical
    BY DEF ListHandlers, RemoveHandler, AddHandler, LoggingTypeOK
  <1>2. /\ step[a] \in {"filtered", "removing"} /\ step'[a] \in {"removing", "added"}
        /\ \A b \in Apps : b # a => step'[b] = step[b] /\ existing'[b] = existing[b]
    BY DEF ListHandlers, RemoveHandler, AddHandler, LoggingTypeOK
  <1>3. created' = created /\ Configuring' = Configuring /\ a \in Configuring
    BY <1>2 DEF created, Configuring
  <1>4. LoggingTypeOK'
    BY <1>1 DEF ListHandlers, RemoveHandler, AddHandler, LoggingTypeOK
  <1>5. step'[a] = "removing" \/ a \in handlers'
    BY DEF ListHandlers, RemoveHandler, AddHandler, LoggingTypeOK
  <1>6. LoggingReady'
    <2>1. \A b \in Apps : step'[b] # "none" => step[b] # "none"
      BY <1>2
    <2>2. /\ \A b \in Apps : step'[b] # "none" => wanted'[b] <= quietest'
          /\ created' # {} => level' <= quietest'
          /\ (\E b \in Apps : step'[b] # "none") => filter' <= quietest'
      BY <1>1, <1>3, <2>1 DEF LoggingInv, LoggingReady
    <2>3. QED
      BY <1>5, <2>2 DEF LoggingReady
  <1>7. Alone'
    <2>1. ASSUME overlap # "now", NEW b \in Configuring
          PROVE  /\ \A c \in Configuring : c = b
                 /\ latest = b /\ filter = wanted[b]
                 /\ step'[b] = "removing" => handlers' = existing'[b]
                 /\ step'[b] = "added" => handlers' = {b}
      <3>1. /\ \A c \in Configuring : c = b
            /\ latest = b /\ filter = wanted[b]
            /\ step[b] = "removing" => handlers = existing[b]
        BY <2>1 DEF LoggingInv, Alone
      <3>2. b = a
        BY <1>3, <3>1
      <3>3. CASE ListHandlers(a)
        BY <3>1, <3>2, <3>3 DEF ListHandlers, LoggingTypeOK
      <3>4. CASE RemoveHandler(a)
        BY <3>1, <3>2, <3>4 DEF RemoveHandler, LoggingTypeOK
      <3>5. CASE AddHandler(a)
        BY <3>1, <3>2, <3>5 DEF AddHandler, LoggingTypeOK
      <3>6. QED
        BY <3>1, <3>3, <3>4, <3>5
    <2>2. ASSUME overlap = "never"
          PROVE  \A g \in handlers' : \A h \in handlers' : g = h
      <3>1. \A g \in handlers : \A h \in handlers : g = h
        BY <2>2 DEF LoggingInv, Alone
      <3>2. step[a] = "removing" => handlers = existing[a]
        BY <1>3, <2>2 DEF LoggingInv, Alone
      <3>3. handlers' \subseteq handlers \/ handlers' = {a}
        BY <3>2 DEF ListHandlers, RemoveHandler, AddHandler
      <3>4. QED
        BY <3>1, <3>3
    <2>3. QED
      BY <1>1, <1>3, <2>1, <2>2 DEF Alone
  <1>8. LastCallWins'
    BY <1>3 DEF LastCallWins
  <1>9. QED
    BY <1>1, <1>3, <1>4, <1>6, <1>7, <1>8 DEF LoggingInv, Info, Critical

(* ... and ends.                                                           *)
LEMMA SetLevelStep ==
    ASSUME LoggingTypeOK, LoggingInv, NEW a \in Apps, SetLevel(a)
    PROVE  /\ LoggingTypeOK' /\ LoggingInv' /\ created \subseteq created'
           /\ quietest <= quietest'
  <1>1. /\ step[a] = "added" /\ step' = [step EXCEPT ![a] = "done"]
        /\ level' = wanted[a]
        /\ overlap' = IF overlap = "before" THEN "never" ELSE overlap
        /\ UNCHANGED <<wanted, existing, filter, handlers, quietest, latest>>
        /\ quietest \in Info..Critical
    BY DEF SetLevel, LoggingTypeOK
  <1>2. step'[a] = "done" /\ \A b \in Apps : b # a => step'[b] = step[b]
    BY <1>1 DEF LoggingTypeOK
  <1>3. /\ created' = created \cup {a} /\ a \in Configuring
        /\ Configuring' = Configuring \ {a}
    BY <1>1, <1>2 DEF created, Configuring
  <1>4. LoggingTypeOK'
    BY <1>1 DEF LoggingTypeOK
  <1>5. overlap' # "now" => /\ Configuring = {a} /\ latest = a /\ filter = wanted[a]
                            /\ handlers = {a}
    <2>1. ASSUME overlap' # "now"
          PROVE  /\ \A b \in Configuring : b = a
                 /\ latest = a /\ filter = wanted[a] /\ handlers = {a}
      BY <1>1, <1>3, <2>1 DEF LoggingInv, Alone
    <2>2. QED
      BY <1>3, <2>1
  <1>6. LoggingReady'
    <2>1. /\ \A b \in Apps : step'[b] # "none" => step[b] # "none"
          /\ step[a] # "none"
      BY <1>1, <1>2
    <2>2. /\ \A b \in Apps : step'[b] # "none" => wanted'[b] <= quietest'
          /\ level' <= quietest'
          /\ (\E b \in Apps : step'[b] # "none") => filter' <= quietest'
      BY <1>1, <2>1 DEF LoggingInv, LoggingReady
    <2>3. handlers # {} \/ \E b \in Apps : step[b] = "removing"
      BY <1>1 DEF LoggingInv, LoggingReady
    <2>4. handlers' # {} \/ \E b \in Apps : step'[b] = "removing"
      BY <1>1, <1>2, <2>3
    <2>5. QED
      BY <2>2, <2>4 DEF LoggingReady
  <1>7. Alone'
    BY <1>1, <1>3, <1>5 DEF Alone
  <1>8. LastCallWins'
    BY <1>1, <1>5 DEF LastCallWins, LoggingTypeOK
  <1>9. QED
    BY <1>1, <1>3, <1>4, <1>6, <1>7, <1>8 DEF LoggingInv, Info, Critical

LEMMA LoggingStep ==
    ASSUME LoggingTypeOK, LoggingInv, NEW a \in Apps, Create(a)
    PROVE  /\ LoggingTypeOK' /\ LoggingInv' /\ created \subseteq created'
           /\ quietest <= quietest'
  <1>1. ASSUME NEW l \in LogLevels, Configure(a, l)
        PROVE  /\ LoggingTypeOK' /\ LoggingInv' /\ created \subseteq created'
               /\ quietest <= quietest'
    BY <1>1, ConfigureStep
  <1>2. CASE ListHandlers(a) \/ RemoveHandler(a) \/ AddHandler(a)
    BY <1>2, ReplaceStep
  <1>3. CASE SetLevel(a)
    BY <1>3, SetLevelStep
  <1>4. QED
    BY <1>1, <1>2, <1>3, Zenon DEF Create

(* A record is written, and once, with the exceptions of                   *)
(* RecordsAreWrittenOnce.                                                  *)
LEMMA CopiesFacts ==
    ASSUME LoggingTypeOK, LoggingInv, created # {}, NEW severity \in Info..Critical
    PROVE  /\ Copies(severity) \in Nat
           /\ Copies(severity) = 0 => Configuring # {} /\ severity < Warning
           /\ Copies(severity) > 1 => overlap # "never"
  <1>1. IsFiniteSet(handlers)
    BY FiniteAssumption, FS_Subset DEF LoggingTypeOK
  <1>2. Cardinality(handlers) \in Nat /\ (handlers # {} => Cardinality(handlers) # 0)
    BY <1>1, FS_CardinalityType, FS_EmptySet
  <1>3. CASE handlers = {}
    <2>1. \E a \in Apps : step[a] = "done"
      BY DEF created
    <2>2. \E a \in Apps : step[a] = "removing"
      BY <1>3, <2>1 DEF LoggingInv, LoggingReady
    <2>3. Configuring # {}
      BY <2>2 DEF Configuring
    <2>4. QED
      BY <1>3, <2>3 DEF Copies, Info, Warning, Critical
  <1>4. CASE handlers # {}
    <2>1. ASSUME overlap = "never" PROVE Cardinality(handlers) = 1
      <3>1. PICK h \in handlers : TRUE
        BY <1>4
      <3>2. handlers = {h}
        BY <2>1, <3>1 DEF LoggingInv, Alone
      <3>3. QED
        BY <3>2, FS_Singleton
    <2>2. QED
      BY <1>2, <1>4, <2>1 DEF Copies
  <1>5. QED
    BY <1>3, <1>4

-----------------------------------------------------------------------------
(* Stacks.                                                                 *)

LEMMA DropLast ==
    ASSUME NEW S, NEW s \in Seq(S), s # <<>>
    PROVE  /\ Front(s) \in Seq(S)
           /\ Len(Front(s)) = Len(s) - 1 /\ Len(s) \in Nat \ {0}
           /\ \A n \in 1..(Len(s) - 1) : Front(s)[n] = s[n]
  <1>1. Len(s) \in Nat \ {0}
    OBVIOUS
  <1>2. Front(s) \in Seq(S)
    BY DEF Front
  <1>3. \A n \in 1..(Len(s) - 1) : Front(s)[n] = s[n]
    BY DEF Front
  <1>4. Len(Front(s)) = Len(s) - 1
    <2> DEFINE m == Len(s) - 1
    <2>1. m \in Nat /\ \A i \in 1..m : i \in 1..Len(s)
      BY <1>1
    <2> HIDE DEF m
    <2>2. \A i \in 1..m : s[i] \in S
      BY <2>1, ElementOfSeq, Zenon
    <2>3. Len(SubSeq(s, 1, m)) = IF 1 <= m THEN m - 1 + 1 ELSE 0
      BY <2>1, <2>2, SubSeqProperties
    <2>4. Len(SubSeq(s, 1, m)) = m
      BY <2>1, <2>3
    <2>5. QED
      BY <2>4, Zenon DEF Front, m
  <1>5. QED
    BY <1>1, <1>2, <1>3, <1>4

LEMMA ReplaceLast ==
    ASSUME NEW S, NEW s \in Seq(S), s # <<>>, NEW r \in S
    PROVE  /\ Front(s) \o <<r>> \in Seq(S)
           /\ Len(Front(s) \o <<r>>) = Len(s)
           /\ (Front(s) \o <<r>>)[Len(s)] = r
           /\ \A n \in 1..(Len(s) - 1) : (Front(s) \o <<r>>)[n] = s[n]
  <1> DEFINE f == Front(s)
  <1>1. /\ f \in Seq(S) /\ Len(f) = Len(s) - 1 /\ Len(s) \in Nat \ {0}
        /\ \A n \in 1..(Len(s) - 1) : f[n] = s[n]
    BY DropLast
  <1> HIDE DEF f
  <1>2. f \o <<r>> \in Seq(S) /\ Len(f \o <<r>>) = Len(s)
    BY <1>1
  <1>3. (f \o <<r>>)[Len(s)] = r
    BY <1>1
  <1>4. \A n \in 1..(Len(s) - 1) : (f \o <<r>>)[n] = f[n]
    BY <1>1
  <1>5. QED
    BY <1>1, <1>2, <1>3, <1>4 DEF f

LEMMA OneMore ==
    ASSUME NEW S, NEW s \in Seq(S), NEW r \in S
    PROVE  /\ Append(s, r) \in Seq(S) /\ Append(s, r) # <<>>
           /\ Len(Append(s, r)) = Len(s) + 1 /\ Len(s) \in Nat
           /\ Append(s, r)[Len(s) + 1] = r
           /\ \A n \in 1..Len(s) : Append(s, r)[n] = s[n]
  OBVIOUS

(* Setting attributes of g changes one request, and not where its g is.    *)
LEMMA Attributed ==
    ASSUME NEW s \in Seq(Requests), NEW g \in 1..Len(s), NEW r \in Requests, r.g = s[g].g
    PROVE  LET q == [s EXCEPT ![g] = r]
           IN  /\ q \in Seq(Requests) /\ Len(q) = Len(s)
               /\ \A n \in 1..Len(s) : q[n].g = s[n].g
               /\ \A n \in 1..Len(s) : n # g => q[n] = s[n]
  <1>1. /\ [s EXCEPT ![g] = r] \in Seq(Requests) /\ Len([s EXCEPT ![g] = r]) = Len(s)
        /\ \A n \in 1..Len(s) : [s EXCEPT ![g] = r][n] = IF n = g THEN r ELSE s[n]
    BY ExceptSeq
  <1>2. QED
    BY <1>1, Zenon

(* The innermost request of a thread.                                      *)
LEMMA TopFacts ==
    ASSUME TypeOK, StackTypeOK, NEW t \in Threads, stack[t] # <<>>
    PROVE  /\ stack[t] \in Seq(Requests)
           /\ Depth(t) \in 1..MaxNesting /\ Top(t) = stack[t][Depth(t)]
           /\ Top(t) \in Requests /\ Top(t).g \in 1..Depth(t)
           /\ CorrelationId(t) \in Ids \cup {None}
           /\ CorrelationToken(t) \in Ids \cup {None, Gone}
  <1>1. stack[t] \in Seq(Requests)
    BY DEF StackTypeOK
  <1>2. Depth(t) \in Nat \ {0} /\ Depth(t) <= MaxNesting
    BY <1>1 DEF Depth, TypeOK
  <1>3. \A n \in 1..Depth(t) : stack[t][n] \in Requests
    BY <1>1, ElementOfSeq, Zenon DEF Depth
  <1>4. Top(t) = stack[t][Depth(t)] /\ Depth(t) \in 1..Depth(t)
    BY <1>2 DEF Top, Last, Depth
  <1>5. Top(t) \in Requests /\ Top(t).g <= Depth(t)
    BY <1>3, <1>4 DEF StackTypeOK
  <1>6. Top(t).g \in 1..Depth(t)
    BY <1>2, <1>5, BoundsAssumption DEF Requests
  <1>7. stack[t][Top(t).g] \in Requests
    BY <1>3, <1>6
  <1>8. QED
    BY <1>1, <1>2, <1>4, <1>5, <1>6, <1>7, BoundsAssumption DEF CorrelationId, CorrelationToken, Requests

(* ... which has its own context as long as none is shared.                *)
LEMMA TopOwnsItsContext ==
    ASSUME TypeOK, StackTypeOK, OwnContexts, ~shared, NEW t \in Threads, stack[t] # <<>>
    PROVE  /\ current[t] = Top(t).id /\ Top(t).g = Depth(t)
           /\ CorrelationId(t) = Top(t).id
           /\ CorrelationToken(t) = Around(t, Depth(t) - 1)
           /\ Top(t).body \in {None, Top(t).id}
  <1>1. Depth(t) \in 1..MaxNesting /\ Depth(t) # 0 /\ Top(t) = stack[t][Depth(t)]
        /\ Depth(t) \in 1..Depth(t)
    BY TopFacts, BoundsAssumption
  <1>2. /\ current[t] = Around(t, Depth(t))
        /\ \A n \in 1..Depth(t) :
             /\ stack[t][n].g = n
             /\ stack[t][n].correlation_id = stack[t][n].id
             /\ stack[t][n].correlation_token = Around(t, n - 1)
             /\ stack[t][n].body \in {None, stack[t][n].id}
    BY Zenon DEF OwnContexts
  <1>3. QED
    BY <1>1, <1>2 DEF Around, CorrelationId, CorrelationToken

(* What is recorded now.                                                   *)
Written(r) == /\ r.copies = 0 => r.amid /\ r.event # "detail"
              /\ r.copies > 1 => r.overlapped

LEMMA RecordedFacts ==
    ASSUME IInv, NEW t \in Threads, NEW severity \in Info..Critical, created # {},
           NEW event \in {"application", "detail", "http.request"},
           event = "detail" => severity >= Warning
    PROVE  /\ Recorded(t, event, severity) \subseteq Records
           /\ \A r \in Recorded(t, event, severity) :
                Written(r) /\ (~shared => r.carries = r.made)
           /\ stack[t] # <<>> /\ quietest <= severity =>
                \E r \in Recorded(t, event, severity) : r.made = Top(t).id /\ r.event = event
  <1>1. LoggingTypeOK /\ LoggingInv
    BY DEF IInv, TypeOK
  <1>2. current[t] \in Ids \cup {None}
    BY DEF IInv, TypeOK
  <1>3. stack[t] # <<>> => Top(t).id \in Ids
    BY TopFacts DEF IInv, Requests
  <1>4. ~shared => current[t] = IF stack[t] = <<>> THEN None ELSE Top(t).id
    <2>1. ASSUME stack[t] = <<>>, ~shared PROVE current[t] = None
      <3>1. Depth(t) = 0
        BY <2>1 DEF Depth
      <3>2. current[t] = Around(t, Depth(t))
        BY <2>1, Zenon DEF IInv, OwnContexts
      <3>3. QED
        BY <3>1, <3>2 DEF Around
    <2>2. QED
      BY <2>1, TopOwnsItsContext DEF IInv
  <1>5. quietest <= severity => Emitted(severity)
    <2>1. level <= quietest /\ filter <= quietest
      BY <1>1 DEF LoggingInv, LoggingReady, created
    <2>2. QED
      BY <1>1, <2>1 DEF Emitted, LoggingTypeOK, Info, Critical
  <1> DEFINE m == IF stack[t] = <<>> THEN None ELSE Top(t).id
             c == Copies(severity)
             r0 == [made |-> m, carries |-> current[t], event |-> event, copies |-> c,
                    amid |-> Configuring # {}, overlapped |-> overlap # "never"]
  <1>6. Recorded(t, event, severity) = IF ~Emitted(severity) THEN {} ELSE {r0}
    BY Zenon DEF Recorded
  <1>7. /\ c \in Nat /\ (c = 0 => Configuring # {} /\ event # "detail")
        /\ c > 1 => overlap # "never"
    BY <1>1, CopiesFacts DEF Warning, Info, Critical
  <1>8. m \in Ids \cup {None}
    BY <1>3
  <1> HIDE DEF m, c
  <1>9. r0 \in Records
    BY <1>2, <1>7, <1>8 DEF Records
  <1>10. /\ r0.made = m /\ r0.carries = current[t] /\ r0.event = event
         /\ r0.copies = c /\ r0.amid = (Configuring # {})
         /\ r0.overlapped = (overlap # "never")
    OBVIOUS
  <1> HIDE DEF r0
  <1>11. Written(r0)
    BY <1>7, <1>10 DEF Written
  <1>12. stack[t] # <<>> => m = Top(t).id
    BY DEF m
  <1>13. ~shared => current[t] = m
    BY <1>4 DEF m
  <1>14. QED
    BY <1>5, <1>6, <1>9, <1>10, <1>11, <1>12, <1>13, Zenon

-----------------------------------------------------------------------------
(* The histories: records that name their request, answers whose record    *)
(* and whose detail are there.                                             *)
Attributable(R) ==
    R \subseteq Records /\ \A r \in R : Written(r) /\ (~shared => r.carries = r.made)

Accountable(A) == ~shared' => \A a \in A :
    /\ a.header = a.to /\ a.body \in {None, a.header}
    /\ quietest' = Info => \E r \in records' : r.event = "http.request" /\ r.made = a.to
    /\ quietest' <= Error /\ a.generic =>
         /\ a.body = a.to
         /\ \E r \in records' : r.made = a.to /\ r.event = "detail"

LEMMA HistoryGrows ==
    ASSUME IInv, NEW R, NEW A, Attributable(R), A \subseteq Answers,
           records' = records \cup R, answers' = answers \cup A,
           shared => shared', quietest' \in Info..Critical, quietest <= quietest',
           Accountable(A)
    PROVE  /\ records \subseteq records'
           /\ records' \subseteq Records /\ answers' \subseteq Answers
           /\ RecordsAreAttributed' /\ RecordsAreWrittenOnce' /\ HeadersAreIds'
           /\ AnswersNameTheirRequest' /\ GenericAnswersAreTraceable'
  <1>1. quietest \in Info..Critical
    BY DEF IInv, TypeOK, LoggingTypeOK
  <1>2. /\ quietest' = Info => quietest = Info
        /\ quietest' <= Error => quietest <= Error
    BY <1>1 DEF Info, Warning, Error, Critical
  <1>3. /\ records \subseteq records'
        /\ records' \subseteq Records /\ answers' \subseteq Answers
    BY DEF IInv, TypeOK, Attributable
  <1>4. \A r \in records' : Written(r) /\ (~shared' => r.carries = r.made)
    <2>1. \A r \in records : Written(r)
      BY Zenon DEF IInv, RecordsAreWrittenOnce, Written
    <2>2. \A r \in records : ~shared' => r.carries = r.made
      BY Zenon DEF IInv, RecordsAreAttributed
    <2>3. \A r \in R : Written(r) /\ (~shared' => r.carries = r.made)
      BY Zenon DEF Attributable
    <2>4. QED
      BY <2>1, <2>2, <2>3, Zenon
  <1>5. \A r \in records' : /\ r.copies > 0 \/ r.amid
                            /\ r.event = "detail" => r.copies > 0
    <2>1. TAKE r \in records'
    <2>2. r \in Records /\ Written(r)
      BY <1>3, <1>4
    <2>3. r.copies \in Nat
      BY <2>2 DEF Records
    <2>4. QED
      BY <2>2, <2>3 DEF Written
  <1>6. ~shared' => \A a \in answers' : a.header = a.to
    BY Zenon DEF IInv, HeadersAreIds, Accountable
  <1>7. ASSUME ~shared', NEW a \in answers'
        PROVE  /\ a.body \in {None, a.header}
               /\ quietest' = Info => \E r \in records' : r.event = "http.request" /\ r.made = a.to
    <2>1. CASE a \in answers
      <3>1. /\ a.body \in {None, a.header}
            /\ quietest = Info => \E r \in records : r.event = "http.request" /\ r.made = a.to
        BY <1>7, <2>1, Zenon DEF IInv, AnswersNameTheirRequest
      <3>2. QED
        BY <1>2, <1>3, <3>1, Zenon
    <2>2. CASE a \in A
      BY <1>7, <2>2, Zenon DEF Accountable
    <2>3. QED
      BY <1>7, <2>1, <2>2, Zenon
  <1>8. ASSUME ~shared', quietest' <= Error, NEW a \in answers', a.generic
        PROVE  \E r \in records' : r.made = a.to /\ r.carries = a.body /\ r.event = "detail"
    <2>1. CASE a \in answers
      <3>1. \E r \in records : r.made = a.to /\ r.carries = a.body /\ r.event = "detail"
        BY <1>2, <1>8, <2>1, Zenon DEF IInv, GenericAnswersAreTraceable
      <3>2. QED
        BY <1>3, <3>1, Zenon
    <2>2. CASE a \in A
      <3>1. /\ a.body = a.to
            /\ \E r \in records' : r.made = a.to /\ r.event = "detail"
        BY <1>8, <2>2, Zenon DEF Accountable
      <3>2. PICK r \in records' : r.made = a.to /\ r.event = "detail"
        BY <3>1, Zenon
      <3>3. r.carries = a.body
        BY <1>4, <1>8, <3>1, <3>2, Zenon
      <3>4. QED
        BY <3>2, <3>3, Zenon
    <2>3. QED
      BY <1>8, <2>1, <2>2, Zenon
  <1>9. RecordsAreAttributed' /\ RecordsAreWrittenOnce' /\ HeadersAreIds'
    BY <1>4, <1>6, Zenon DEF RecordsAreAttributed, RecordsAreWrittenOnce, HeadersAreIds, Written
  <1>10. AnswersNameTheirRequest'
    BY <1>4, <1>6, <1>7, <1>5, Zenon DEF AnswersNameTheirRequest
  <1>11. GenericAnswersAreTraceable'
    BY <1>8, <1>5, Zenon DEF GenericAnswersAreTraceable
  <1>12. QED
    BY <1>3, <1>9, <1>10, <1>11

LEMMA RecordedIsAttributable ==
    ASSUME IInv, NEW t \in Threads, NEW severity \in Info..Critical, created # {},
           NEW event \in {"application", "detail", "http.request"},
           event = "detail" => severity >= Warning
    PROVE  Attributable(Recorded(t, event, severity))
  <1>1. /\ Recorded(t, event, severity) \subseteq Records
        /\ \A r \in Recorded(t, event, severity) :
             Written(r) /\ (~shared => r.carries = r.made)
    BY RecordedFacts
  <1>2. QED
    BY <1>1, Zenon DEF Attributable

LEMMA NothingIsAttributable == Attributable({})
  BY Zenon DEF Attributable

LEMMA TypedStack ==
    ASSUME NEW s \in Seq(Requests)
    PROVE  \A n \in DOMAIN s : s[n] \in Requests
  <1>1. DOMAIN s = 1..Len(s)
    OBVIOUS
  <1>2. QED
    BY <1>1, ElementOfSeq, Zenon

(* What the invariant says of the detail of an error not told.             *)
LEMMA DetailFact ==
    ASSUME DetailsAreLogged, ~shared, quietest <= Error, NEW t \in Threads,
           NEW n \in 1..Depth(t), stack[t][n].generic
    PROVE  /\ stack[t][n].body = stack[t][n].id
           /\ \E r \in records : r.made = stack[t][n].id /\ r.event = "detail"
  BY Zenon DEF DetailsAreLogged

(* A step that rewrites the innermost request of a thread and leaves the   *)
(* rest of the stacks alone.                                               *)
LEMMA TopRewritten ==
    ASSUME IInv, NEW t \in Threads, stack[t] # <<>>, NEW r \in Requests, Becomes(t, r),
           r.id = Top(t).id, r.g = Top(t).g,
           r.correlation_id = Top(t).correlation_id,
           r.correlation_token = Top(t).correlation_token,
           ~shared => r.body \in {None, r.id},
           ~shared /\ quietest <= Error /\ r.generic =>
               r.body = r.id /\ \E q \in records' : q.made = r.id /\ q.event = "detail",
           records \subseteq records', UNCHANGED <<current, shared, logging>>
    PROVE  /\ \A u \in Threads : /\ Len(stack'[u]) <= MaxNesting
                                 /\ \A n \in DOMAIN stack'[u] : stack'[u][n] \in Requests
           /\ StackTypeOK' /\ Served' /\ OwnContexts' /\ DetailsAreLogged'
  <1>1. /\ stack \in [Threads -> Seq(Requests)]
        /\ \A u \in Threads : \A n \in 1..Depth(u) : stack[u][n].g <= n
        /\ stack[t] \in Seq(Requests) /\ Depth(t) \in 1..MaxNesting
        /\ Top(t) = stack[t][Depth(t)]
    BY TopFacts DEF IInv, StackTypeOK
  <1> DEFINE s == Front(stack[t]) \o <<r>>
  <1>2. stack' = [stack EXCEPT ![t] = s]
    BY DEF Becomes
  <1>3. /\ s \in Seq(Requests) /\ Len(s) = Depth(t) /\ s[Depth(t)] = r
        /\ \A n \in 1..(Depth(t) - 1) : s[n] = stack[t][n]
    <2>1. /\ s \in Seq(Requests) /\ Len(s) = Len(stack[t]) /\ s[Len(stack[t])] = r
          /\ \A n \in 1..(Len(stack[t]) - 1) : s[n] = stack[t][n]
      BY <1>1, ReplaceLast
    <2>2. Depth(t) = Len(stack[t])
      BY DEF Depth
    <2>3. QED
      BY <2>1, <2>2, Zenon
  <1> HIDE DEF s
  <1>4. \A n \in 1..Depth(t) : s[n] = IF n = Depth(t) THEN r ELSE stack[t][n]
    BY <1>1, <1>3
  <1>5. /\ stack' \in [Threads -> Seq(Requests)]
        /\ \A u \in Threads : stack'[u] = IF u = t THEN s ELSE stack[u]
    BY <1>1, <1>2, <1>3
  <1>6. \A u \in Threads : Len(stack'[u]) = Depth(u) /\ Depth(u)' = Depth(u)
    BY <1>3, <1>5, Zenon DEF Depth
  <1>7. \A u \in Threads : \A n \in 1..Depth(u) :
            stack'[u][n] = IF u = t /\ n = Depth(t) THEN r ELSE stack[u][n]
    BY <1>4, <1>5, Zenon
  <1>8. \A u \in Threads : \A n \in 1..Depth(u) :
            /\ stack'[u][n].id = stack[u][n].id /\ stack'[u][n].g = stack[u][n].g
            /\ stack'[u][n].correlation_id = stack[u][n].correlation_id
            /\ stack'[u][n].correlation_token = stack[u][n].correlation_token
    BY <1>1, <1>7, Zenon
  <1>9. \A u \in Threads : Depth(u) \in Nat /\ Depth(u) <= MaxNesting
    BY <1>1 DEF Depth, IInv, TypeOK
  <1>10. \A u \in Threads : \A n \in DOMAIN stack'[u] : stack'[u][n] \in Requests
    BY <1>5, TypedStack, Zenon
  <1>11. \A u \in Threads : Len(stack'[u]) <= MaxNesting
    BY <1>6, <1>9, Zenon
  <1>12. StackTypeOK'
    <2>1. ASSUME NEW u \in Threads, NEW n \in 1..Depth(u)'
          PROVE  stack'[u][n].g <= n
      <3>1. n \in 1..Depth(u)
        BY <1>6, <2>1, Zenon
      <3>2. stack'[u][n].g = stack[u][n].g
        BY <1>8, <3>1, Zenon
      <3>3. QED
        BY <1>1, <3>1, <3>2
    <2>2. QED
      BY <1>5, <2>1, Zenon DEF StackTypeOK
  <1>13. Served'
    <2>1. \A u \in Threads : stack'[u] # <<>> => stack[u] # <<>>
      BY <1>5, Zenon
    <2>2. created' = created
      BY LoggingStays DEF IInv, TypeOK
    <2>3. QED
      BY <2>1, <2>2 DEF Served, IInv
  <1>14. OwnContexts'
    <2>1. \A u \in Threads : \A n \in 0..Depth(u) : Around(u, n)' = Around(u, n)
      <3>1. TAKE u \in Threads
      <3>2. TAKE n \in 0..Depth(u)
      <3>3. n # 0 => n \in 1..Depth(u)
        BY <1>9
      <3>4. QED
        BY <1>8, <3>3, Zenon DEF Around
    <2>2. ASSUME ~shared', NEW u \in Threads
          PROVE  /\ current'[u] = Around(u, Depth(u))'
                 /\ \A n \in 1..Depth(u)' :
                      /\ stack'[u][n].g = n
                      /\ stack'[u][n].correlation_id = stack'[u][n].id
                      /\ stack'[u][n].correlation_token = Around(u, n - 1)'
                      /\ stack'[u][n].body \in {None, stack'[u][n].id}
      <3>1. ~shared /\ current' = current
        BY <2>2
      <3>2. /\ current[u] = Around(u, Depth(u))
            /\ \A n \in 1..Depth(u) :
                 /\ stack[u][n].g = n
                 /\ stack[u][n].correlation_id = stack[u][n].id
                 /\ stack[u][n].correlation_token = Around(u, n - 1)
                 /\ stack[u][n].body \in {None, stack[u][n].id}
        BY <3>1, Zenon DEF IInv, OwnContexts
      <3>3. Depth(u) \in 0..Depth(u)
        BY <1>9
      <3>4. Around(u, Depth(u))' = Around(u, Depth(u))
        BY <1>6, <2>1, <3>3, Zenon DEF Around
      <3>5. ASSUME NEW n \in 1..Depth(u)'
            PROVE  /\ stack'[u][n].g = n
                   /\ stack'[u][n].correlation_id = stack'[u][n].id
                   /\ stack'[u][n].correlation_token = Around(u, n - 1)'
                   /\ stack'[u][n].body \in {None, stack'[u][n].id}
        <4>1. n \in 1..Depth(u) /\ n - 1 \in 0..Depth(u)
          BY <1>6, <1>9
        <4>2. Around(u, n - 1)' = Around(u, n - 1)
          BY <2>1, <4>1, Zenon
        <4>3. stack'[u][n].body \in {None, stack'[u][n].id}
          BY <1>7, <3>1, <3>2, <4>1, Zenon
        <4>4. /\ stack[u][n].g = n
              /\ stack[u][n].correlation_id = stack[u][n].id
              /\ stack[u][n].correlation_token = Around(u, n - 1)
          BY <3>2, <4>1, Zenon
        <4>5. /\ stack'[u][n].id = stack[u][n].id /\ stack'[u][n].g = stack[u][n].g
              /\ stack'[u][n].correlation_id = stack[u][n].correlation_id
              /\ stack'[u][n].correlation_token = stack[u][n].correlation_token
          BY <1>8, <4>1, Zenon
        <4>6. stack'[u][n].correlation_token = Around(u, n - 1)'
          BY <4>2, <4>4, <4>5
        <4>7. QED
          BY <4>3, <4>4, <4>5, <4>6, Zenon
      <3>6. QED
        BY <3>1, <3>2, <3>4, <3>5, Zenon
    <2>3. QED
      BY <2>2, Zenon DEF OwnContexts
  <1>15. DetailsAreLogged'
    <2>1. ASSUME ~shared', quietest' <= Error, NEW u \in Threads, NEW n \in 1..Depth(u)',
                 stack'[u][n].generic
          PROVE  /\ stack'[u][n].body = stack'[u][n].id
                 /\ \E q \in records' : q.made = stack'[u][n].id /\ q.event = "detail"
      <3>1. ~shared /\ quietest <= Error
        BY <2>1 DEF logging
      <3>2. n \in 1..Depth(u)
        BY <1>6, <2>1, Zenon
      <3>3. CASE u = t /\ n = Depth(t)
        BY <1>7, <2>1, <3>1, <3>2, <3>3, Zenon
      <3>4. CASE ~(u = t /\ n = Depth(t))
        <4>1. stack'[u][n] = stack[u][n]
          BY <1>7, <3>2, <3>4, Zenon
        <4>2. /\ stack[u][n].body = stack[u][n].id
              /\ \E q \in records : q.made = stack[u][n].id /\ q.event = "detail"
          BY <2>1, <3>1, <3>2, <4>1, DetailFact DEF IInv
        <4>3. QED
          BY <4>1, <4>2, Zenon
      <3>5. QED
        BY <3>3, <3>4, Zenon
    <2>2. QED
      BY <2>1, Zenon DEF DetailsAreLogged
  <1>16. QED
    BY <1>10, <1>11, <1>12, <1>13, <1>14, <1>15, Zenon

-----------------------------------------------------------------------------
(* The steps.                                                              *)

(* A step that leaves the requests and what is bound alone.                *)
LEMMA RequestsStay ==
    ASSUME StackTypeOK, OwnContexts, UNCHANGED <<stack, current, shared>>
    PROVE  StackTypeOK' /\ OwnContexts'
  <1>1. stack' = stack /\ current' = current /\ shared' = shared
    OBVIOUS
  <1>2. \A t \in Threads : Depth(t)' = Depth(t)
    BY <1>1 DEF Depth
  <1>3. StackTypeOK'
    BY <1>1 DEF StackTypeOK, Depth
  <1>4. OwnContexts'
    BY <1>1 DEF OwnContexts, Around, Depth
  <1>5. QED
    BY <1>3, <1>4

LEMMA DetailsStay ==
    ASSUME DetailsAreLogged, UNCHANGED <<stack, shared>>, records \subseteq records',
           quietest' <= Error => quietest <= Error
    PROVE  DetailsAreLogged'
  <1>1. stack' = stack /\ shared' = shared
    OBVIOUS
  <1>2. SUFFICES ASSUME ~shared, quietest' <= Error, NEW t \in Threads, NEW n \in 1..Depth(t),
                        stack[t][n].generic
                 PROVE  /\ stack[t][n].body = stack[t][n].id
                        /\ \E r \in records' : r.made = stack[t][n].id /\ r.event = "detail"
    BY <1>1 DEF DetailsAreLogged, Depth
  <1>3. /\ stack[t][n].body = stack[t][n].id
        /\ \E r \in records : r.made = stack[t][n].id /\ r.event = "detail"
    BY <1>2, DetailFact
  <1>4. QED
    BY <1>3, Zenon

LEMMA InitStep == Init => IInv
  <1> SUFFICES ASSUME Init PROVE IInv
    OBVIOUS
  <1>1. \A t \in Threads : stack[t] = <<>> /\ Depth(t) = 0 /\ current[t] = None
    <2>1. Len(<<>>) = 0
      OBVIOUS
    <2>2. QED
      BY <2>1 DEF Init, Depth
  <1>2. TypeOK
    <2>1. LoggingTypeOK
      BY InitiallyNoLogging DEF Init
    <2>2. \A t \in Threads : /\ Len(stack[t]) <= MaxNesting
                              /\ \A n \in DOMAIN stack[t] : stack[t][n] \in Requests
      <3>1. TAKE t \in Threads
      <3>2. stack[t] = <<>> /\ Len(stack[t]) = 0
        BY <1>1 DEF Depth
      <3>3. DOMAIN <<>> = {}
        OBVIOUS
      <3>4. 0 <= MaxNesting
        BY BoundsAssumption
      <3>5. QED
        BY <3>2, <3>3, <3>4, Zenon
    <2>3. current \in [Threads -> Ids \cup {None}]
      BY DEF Init
    <2>4. /\ issued \in 0..MaxRequests
          /\ records \subseteq Records /\ answers \subseteq Answers
          /\ shared \in BOOLEAN
      <3>1. 0 \in 0..MaxRequests
        BY BoundsAssumption
      <3>2. QED
        BY <3>1, Zenon DEF Init
    <2>5. QED
      BY <2>1, <2>2, <2>3, <2>4, Zenon DEF TypeOK
  <1>3. StackTypeOK
    BY <1>1 DEF StackTypeOK, Init
  <1>4. Served /\ LoggingInv
    BY <1>1, InitiallyNoLogging DEF Served, Init
  <1>5. OwnContexts /\ DetailsAreLogged
    BY <1>1 DEF OwnContexts, DetailsAreLogged, Around
  <1>6. RecordsAreAttributed /\ RecordsAreWrittenOnce /\ HeadersAreIds
        /\ AnswersNameTheirRequest /\ GenericAnswersAreTraceable
    BY Zenon DEF Init, RecordsAreAttributed, RecordsAreWrittenOnce, HeadersAreIds,
                 AnswersNameTheirRequest, GenericAnswersAreTraceable
  <1>7. QED
    BY <1>2, <1>3, <1>4, <1>5, <1>6 DEF IInv

(* What a step that answers nobody and records what is attributable does   *)
(* to the histories.                                                       *)
LEMMA NobodyAnswered ==
    ASSUME IInv, NEW R, Attributable(R), records' = records \cup R, answers' = answers,
           shared => shared', quietest' \in Info..Critical, quietest <= quietest'
    PROVE  /\ records \subseteq records'
           /\ records' \subseteq Records /\ answers' \subseteq Answers
           /\ RecordsAreAttributed' /\ RecordsAreWrittenOnce' /\ HeadersAreIds'
           /\ AnswersNameTheirRequest' /\ GenericAnswersAreTraceable'
  <1>1. answers' = answers \cup {} /\ {} \subseteq Answers
    OBVIOUS
  <1>2. Accountable({})
    BY Zenon DEF Accountable
  <1>3. QED
    BY <1>1, <1>2, HistoryGrows, Zenon

LEMMA LoggingUntouched ==
    ASSUME IInv, UNCHANGED logging
    PROVE  /\ LoggingTypeOK' /\ LoggingInv' /\ created' = created
           /\ quietest \in Info..Critical /\ quietest' \in Info..Critical
           /\ quietest' = quietest /\ quietest <= quietest'
  BY LoggingStays DEF IInv, TypeOK, Info, Critical

LEMMA LogStep ==
    ASSUME IInv, NEW t \in Threads, Log(t)
    PROVE  IInv'
  <1>1. /\ created # {} /\ records' = records \cup Recorded(t, "application", Info)
        /\ UNCHANGED <<stack, current, issued, answers, shared, logging>>
    BY DEF Log
  <1>2. Attributable(Recorded(t, "application", Info))
    BY <1>1, RecordedIsAttributable DEF Info, Critical
  <1>3. quietest \in Info..Critical /\ quietest' = quietest /\ quietest <= quietest'
    BY <1>1, LoggingUntouched
  <1>4. /\ records \subseteq records'
        /\ records' \subseteq Records /\ answers' \subseteq Answers
        /\ RecordsAreAttributed' /\ RecordsAreWrittenOnce' /\ HeadersAreIds'
        /\ AnswersNameTheirRequest' /\ GenericAnswersAreTraceable'
    BY <1>1, <1>2, <1>3, NobodyAnswered, Zenon
  <1>5. TypeOK'
    BY <1>1, <1>4, LoggingUntouched DEF IInv, TypeOK
  <1>6. StackTypeOK' /\ OwnContexts'
    BY <1>1, RequestsStay DEF IInv
  <1>7. Served'
    BY <1>1, LoggingUntouched DEF IInv, Served
  <1>8. DetailsAreLogged'
    BY <1>1, <1>3, <1>4, DetailsStay DEF IInv
  <1>9. QED
    BY <1>1, <1>4, <1>5, <1>6, <1>7, <1>8, LoggingUntouched DEF IInv

LEMMA ReturnStep ==
    ASSUME IInv, NEW t \in Threads, Return(t)
    PROVE  IInv'
  <1> DEFINE r == [Top(t) EXCEPT !.phase = "answered"]
  <1>1. /\ stack[t] # <<>> /\ Becomes(t, r)
        /\ UNCHANGED <<current, issued, records, answers, shared, logging>>
    BY DEF Return, InPhase
  <1>2. Top(t) \in Requests
    BY <1>1, TopFacts DEF IInv
  <1>3. /\ r \in Requests /\ r.id = Top(t).id /\ r.g = Top(t).g
        /\ r.correlation_id = Top(t).correlation_id
        /\ r.correlation_token = Top(t).correlation_token
        /\ r.body = Top(t).body /\ r.generic = Top(t).generic
    BY <1>2 DEF Requests
  <1> HIDE DEF r
  <1>4. ~shared => r.body \in {None, r.id}
    BY <1>1, <1>3, TopOwnsItsContext, Zenon DEF IInv
  <1>5. ~shared /\ quietest <= Error /\ r.generic =>
               r.body = r.id /\ \E q \in records' : q.made = r.id /\ q.event = "detail"
    <2>1. Depth(t) \in 1..MaxNesting /\ Top(t) = stack[t][Depth(t)]
      BY <1>1, TopFacts, Zenon DEF IInv
    <2>2. Depth(t) \in 1..Depth(t)
      BY <2>1, BoundsAssumption
    <2>3. ASSUME ~shared, quietest <= Error, Top(t).generic
          PROVE  /\ Top(t).body = Top(t).id
                 /\ \E q \in records : q.made = Top(t).id /\ q.event = "detail"
      BY <2>1, <2>2, <2>3, DetailFact DEF IInv
    <2>4. QED
      BY <1>1, <1>3, <2>3, Zenon
  <1>6. /\ \A u \in Threads : /\ Len(stack'[u]) <= MaxNesting
                              /\ \A n \in DOMAIN stack'[u] : stack'[u][n] \in Requests
        /\ StackTypeOK' /\ Served' /\ OwnContexts' /\ DetailsAreLogged'
    <2>1. records \subseteq records' /\ UNCHANGED <<current, shared, logging>>
      BY <1>1
    <2>2. QED
      BY <1>1, <1>3, <1>4, <1>5, <2>1, TopRewritten, Zenon
  <1>7. /\ records' \subseteq Records /\ answers' \subseteq Answers
        /\ RecordsAreAttributed' /\ RecordsAreWrittenOnce' /\ HeadersAreIds'
        /\ AnswersNameTheirRequest' /\ GenericAnswersAreTraceable'
    <2>1. records' = records \cup {} /\ answers' = answers /\ (shared => shared')
          /\ UNCHANGED logging
      BY <1>1
    <2>2. QED
      BY <2>1, NobodyAnswered, NothingIsAttributable, LoggingUntouched, Zenon
  <1>8. TypeOK'
    BY <1>1, <1>6, <1>7, LoggingUntouched DEF IInv, TypeOK
  <1>9. QED
    BY <1>1, <1>6, <1>7, <1>8, LoggingUntouched DEF IInv

LEMMA FailStep ==
    ASSUME IInv, NEW t \in Threads, NEW exc \in Exceptions, Fail(t, exc)
    PROVE  IInv'
  <1> DEFINE h == Handler(exc)
             D == Detail(t, h)
             gen == Generic(h, Top(t).app)
             r == [Top(t) EXCEPT !.phase = "answered", !.body = CorrelationId(t), !.generic = gen]
  <1>1. /\ stack[t] # <<>> /\ Becomes(t, r) /\ records' = records \cup D
        /\ UNCHANGED <<current, issued, answers, shared, logging>>
    BY DEF Fail, InPhase
  <1> HIDE DEF h
  <1>2. Top(t) \in Requests /\ CorrelationId(t) \in Ids \cup {None}
    BY <1>1, TopFacts DEF IInv
  <1>3. created # {}
    BY <1>1 DEF IInv, Served
  <1>4. gen \in BOOLEAN
    BY DEF Generic
  <1>5. gen => D = Recorded(t, "detail", Error)
    BY DEF Generic, Detail
  <1>6. D \in {{}, Recorded(t, "detail", Warning), Recorded(t, "detail", Error)}
    BY DEF Detail
  <1>7. Attributable(D)
    <2>1. /\ Warning \in Info..Critical /\ Error \in Info..Critical
          /\ Warning >= Warning /\ Error >= Warning
      BY DEF Info, Warning, Error, Critical
    <2>2. /\ Attributable(Recorded(t, "detail", Warning))
          /\ Attributable(Recorded(t, "detail", Error))
      BY <1>3, <2>1, RecordedIsAttributable
    <2>3. QED
      BY <1>6, <2>2, NothingIsAttributable
  <1> HIDE DEF gen, D
  <1>8. /\ r \in Requests /\ r.id = Top(t).id /\ r.g = Top(t).g
        /\ r.correlation_id = Top(t).correlation_id
        /\ r.correlation_token = Top(t).correlation_token
        /\ r.body = CorrelationId(t) /\ r.generic = gen
    BY <1>2, <1>4 DEF Requests
  <1> HIDE DEF r
  <1>9. ~shared => r.body = r.id
    BY <1>1, <1>8, TopOwnsItsContext, Zenon DEF IInv
  <1>10. ~shared /\ quietest <= Error /\ r.generic =>
               r.body = r.id /\ \E q \in records' : q.made = r.id /\ q.event = "detail"
    <2>1. ASSUME quietest <= Error, gen
          PROVE  \E q \in Recorded(t, "detail", Error) : q.made = Top(t).id /\ q.event = "detail"
      <3>1. Error \in Info..Critical /\ Error >= Warning
        BY DEF Info, Warning, Error, Critical
      <3>2. QED
        BY <1>1, <1>3, <2>1, <3>1, RecordedFacts
    <2>2. QED
      BY <1>1, <1>5, <1>8, <1>9, <2>1, Zenon
  <1>11. /\ \A u \in Threads : /\ Len(stack'[u]) <= MaxNesting
                               /\ \A n \in DOMAIN stack'[u] : stack'[u][n] \in Requests
         /\ StackTypeOK' /\ Served' /\ OwnContexts' /\ DetailsAreLogged'
    <2>1. records \subseteq records' /\ UNCHANGED <<current, shared, logging>>
      BY <1>1
    <2>2. ~shared => r.body \in {None, r.id}
      BY <1>9
    <2>3. QED
      BY <1>1, <1>8, <1>10, <2>1, <2>2, TopRewritten, Zenon
  <1>12. /\ records' \subseteq Records /\ answers' \subseteq Answers
         /\ RecordsAreAttributed' /\ RecordsAreWrittenOnce' /\ HeadersAreIds'
         /\ AnswersNameTheirRequest' /\ GenericAnswersAreTraceable'
    <2>1. answers' = answers /\ (shared => shared') /\ UNCHANGED logging
      BY <1>1
    <2>2. QED
      BY <1>1, <1>7, <2>1, NobodyAnswered, LoggingUntouched, Zenon
  <1>13. TypeOK'
    BY <1>1, <1>11, <1>12, LoggingUntouched DEF IInv, TypeOK
  <1>14. QED
    BY <1>1, <1>11, <1>12, <1>13, LoggingUntouched DEF IInv

LEMMA RespondStep ==
    ASSUME IInv, NEW t \in Threads, Respond(t)
    PROVE  IInv'
  <1> DEFINE r == [Top(t) EXCEPT !.phase = "responded"]
             a0 == [to |-> Top(t).id, header |-> CorrelationId(t),
                    body |-> Top(t).body, generic |-> Top(t).generic]
             R == Recorded(t, "http.request", Info)
  <1>1. /\ stack[t] # <<>> /\ Becomes(t, r) /\ answers' = answers \cup {a0}
        /\ records' = records \cup R
        /\ UNCHANGED <<current, issued, shared, logging>>
    BY DEF Respond, InPhase
  <1>2. /\ Top(t) \in Requests /\ CorrelationId(t) \in Ids \cup {None}
        /\ Depth(t) \in 1..MaxNesting /\ Top(t) = stack[t][Depth(t)]
    BY <1>1, TopFacts DEF IInv
  <1>3. /\ r \in Requests /\ r.id = Top(t).id /\ r.g = Top(t).g
        /\ r.correlation_id = Top(t).correlation_id
        /\ r.correlation_token = Top(t).correlation_token
        /\ r.body = Top(t).body /\ r.generic = Top(t).generic
    BY <1>2 DEF Requests
  <1>4. /\ a0 \in Answers /\ a0.to = Top(t).id /\ a0.header = CorrelationId(t)
        /\ a0.body = Top(t).body /\ a0.generic = Top(t).generic
    BY <1>2 DEF Requests, Answers
  <1>5. created # {}
    BY <1>1 DEF IInv, Served
  <1>6. Info \in Info..Critical
    BY DEF Info, Critical
  <1>7. Attributable(R)
    BY <1>5, <1>6, RecordedIsAttributable
  <1>8. quietest <= Info => \E q \in R : q.made = Top(t).id /\ q.event = "http.request"
    BY <1>1, <1>5, <1>6, RecordedFacts
  <1>9. quietest = Info => quietest <= Info
    BY DEF Info
  <1> HIDE DEF r, a0, R
  <1>10. ~shared => /\ CorrelationId(t) = Top(t).id /\ Top(t).body \in {None, Top(t).id}
    BY <1>1, TopOwnsItsContext, Zenon DEF IInv
  <1>11. ASSUME ~shared, quietest <= Error, Top(t).generic
         PROVE  /\ Top(t).body = Top(t).id
                /\ \E q \in records : q.made = Top(t).id /\ q.event = "detail"
    <2>1. Depth(t) \in 1..Depth(t)
      BY <1>2, BoundsAssumption
    <2>2. QED
      BY <1>2, <1>11, <2>1, DetailFact DEF IInv
  <1>12. /\ \A u \in Threads : /\ Len(stack'[u]) <= MaxNesting
                               /\ \A n \in DOMAIN stack'[u] : stack'[u][n] \in Requests
         /\ StackTypeOK' /\ Served' /\ OwnContexts' /\ DetailsAreLogged'
    <2>1. records \subseteq records' /\ UNCHANGED <<current, shared, logging>>
      BY <1>1
    <2>2. ~shared => r.body \in {None, r.id}
      BY <1>3, <1>10, Zenon
    <2>3. ~shared /\ quietest <= Error /\ r.generic =>
               r.body = r.id /\ \E q \in records' : q.made = r.id /\ q.event = "detail"
      BY <1>3, <1>11, <2>1, Zenon
    <2>4. QED
      BY <1>1, <1>3, <2>1, <2>2, <2>3, TopRewritten, Zenon
  <1>13. Accountable({a0})
    <2>1. shared' = shared /\ quietest' = quietest
      BY <1>1 DEF logging
    <2>2. ~shared => a0.header = a0.to /\ a0.body \in {None, a0.header}
      BY <1>4, <1>10, Zenon
    <2>3. quietest = Info => \E q \in records' : q.event = "http.request" /\ q.made = a0.to
      BY <1>1, <1>4, <1>8, <1>9, Zenon
    <2>4. ~shared /\ quietest <= Error /\ a0.generic =>
            /\ a0.body = a0.to
            /\ \E q \in records' : q.made = a0.to /\ q.event = "detail"
      BY <1>1, <1>4, <1>11, Zenon
    <2>5. QED
      BY <2>1, <2>2, <2>3, <2>4, Zenon DEF Accountable
  <1>14. /\ records' \subseteq Records /\ answers' \subseteq Answers
         /\ RecordsAreAttributed' /\ RecordsAreWrittenOnce' /\ HeadersAreIds'
         /\ AnswersNameTheirRequest' /\ GenericAnswersAreTraceable'
    <2>1. (shared => shared') /\ UNCHANGED logging /\ {a0} \subseteq Answers
      BY <1>1, <1>4
    <2>2. QED
      BY <1>1, <1>7, <1>13, <2>1, HistoryGrows, LoggingUntouched, Zenon
  <1>15. TypeOK'
    BY <1>1, <1>12, <1>14, LoggingUntouched DEF IInv, TypeOK
  <1>16. QED
    BY <1>1, <1>12, <1>14, <1>15, LoggingUntouched DEF IInv

LEMMA CreateStep ==
    ASSUME IInv, NEW a \in Apps, Create(a), UNCHANGED context
    PROVE  IInv'
  <1>1. UNCHANGED <<stack, current, issued, records, answers, shared>>
    BY DEF context
  <1>2. /\ LoggingTypeOK' /\ LoggingInv' /\ created \subseteq created'
        /\ quietest <= quietest'
    BY LoggingStep DEF IInv, TypeOK
  <1>3. quietest \in Info..Critical /\ quietest' \in Info..Critical
    BY <1>2 DEF IInv, TypeOK, LoggingTypeOK
  <1>4. /\ records' \subseteq Records /\ answers' \subseteq Answers
        /\ RecordsAreAttributed' /\ RecordsAreWrittenOnce' /\ HeadersAreIds'
        /\ AnswersNameTheirRequest' /\ GenericAnswersAreTraceable'
    <2>1. records' = records \cup {} /\ answers' = answers /\ (shared => shared')
      BY <1>1
    <2>2. QED
      BY <1>2, <1>3, <2>1, NobodyAnswered, NothingIsAttributable, Zenon
  <1>5. TypeOK'
    BY <1>1, <1>2, Zenon DEF IInv, TypeOK
  <1>6. StackTypeOK' /\ OwnContexts'
    BY <1>1, RequestsStay DEF IInv
  <1>7. Served'
    BY <1>1, <1>2 DEF IInv, Served
  <1>8. DetailsAreLogged'
    <2>1. quietest' <= Error => quietest <= Error
      BY <1>2, <1>3 DEF Info, Error, Critical
    <2>2. QED
      BY <1>1, <2>1, DetailsStay DEF IInv
  <1>9. QED
    BY <1>2, <1>4, <1>5, <1>6, <1>7, <1>8 DEF IInv

(* A request gets a context of its own, or shares one.                     *)
LEMMA BeginStep ==
    ASSUME IInv, NEW t \in Threads, NEW a \in Apps, Begin(t, a)
    PROVE  IInv'
  <1> DEFINE id == issued + 1
             g0 == IF Sharing(t, a) THEN Top(t).g ELSE Depth(t) + 1
             r == [app |-> a, id |-> id, g |-> g0,
                   correlation_id |-> id, correlation_token |-> current[t],
                   phase |-> "handling", body |-> None, generic |-> FALSE]
             q == IF Sharing(t, a)
                  THEN [stack[t] EXCEPT ![Top(t).g].correlation_id = id,
                                        ![Top(t).g].correlation_token = current[t]]
                  ELSE stack[t]
             s == Append(q, r)
  <1>1. /\ a \in created /\ issued < MaxRequests /\ Len(stack[t]) < MaxNesting
        /\ issued' = id /\ current' = [current EXCEPT ![t] = id]
        /\ shared' = (Sharing(t, a) \/ shared)
        /\ UNCHANGED <<records, answers, logging>>
    BY DEF Begin, IInv, TypeOK
  <1>2. stack' = [stack EXCEPT ![t] = s]
    BY DEF Begin, Depth
  <1>3. id \in Ids /\ current[t] \in Ids \cup {None}
    BY <1>1, BoundsAssumption DEF IInv, TypeOK, Ids
  <1>4. /\ stack \in [Threads -> Seq(Requests)]
        /\ \A u \in Threads : \A n \in 1..Depth(u) : stack[u][n].g <= n
        /\ stack[t] \in Seq(Requests) /\ Depth(t) \in Nat /\ Depth(t) < MaxNesting
        /\ Depth(t) = Len(stack[t])
    BY <1>1 DEF IInv, StackTypeOK, Depth
  <1>5. Sharing(t, a) => Top(t).g \in 1..Depth(t)
    BY TopFacts DEF IInv, Sharing
  <1>6. g0 \in 1..(Depth(t) + 1) /\ g0 \in 1..MaxNesting
    BY <1>4, <1>5, BoundsAssumption
  <1>7. /\ r \in Requests /\ r.id = id /\ r.g = g0 /\ r.correlation_id = id
        /\ r.correlation_token = current[t] /\ r.body = None /\ r.generic = FALSE
    BY <1>3, <1>6 DEF Requests
  <1> HIDE DEF r
  <1>8. /\ q \in Seq(Requests) /\ Len(q) = Depth(t)
        /\ \A n \in 1..Depth(t) : q[n].g = stack[t][n].g
        /\ ~Sharing(t, a) => q = stack[t]
    <2>1. CASE Sharing(t, a)
      <3>1. Top(t).g \in 1..Len(stack[t]) /\ current[t] \in Ids \cup {None, Gone}
        BY <1>3, <1>4, <1>5, <2>1
      <3> DEFINE st == stack[t]
                 gg == Top(t).g
                 cc == current[t]
                 rr == [st[gg] EXCEPT !.correlation_id = id, !.correlation_token = cc]
                 qq == [st EXCEPT ![gg] = rr]
      <3>2. st \in Seq(Requests) /\ gg \in 1..Len(st) /\ cc \in Ids \cup {None, Gone}
            /\ id \in Ids \cup {None}
        BY <1>3, <1>4, <3>1
      <3>3. q = qq
        BY <2>1
      <3> HIDE DEF st, gg, cc, id
      <3>4. /\ qq \in Seq(Requests) /\ Len(qq) = Len(st)
            /\ \A n \in 1..Len(st) : qq[n].g = st[n].g
        <4>1. rr \in Requests /\ rr.g = st[gg].g
          <5>1. st[gg] \in Requests
            BY <3>2, ElementOfSeq, Zenon
          <5>2. QED
            BY <3>2, <5>1 DEF Requests
        <4> HIDE DEF rr
        <4>2. QED
          BY <3>2, <4>1, Attributed
      <3> HIDE DEF q, qq
      <3>5. QED
        BY <1>4, <2>1, <3>3, <3>4, Zenon DEF st
    <2>2. CASE ~Sharing(t, a)
      BY <1>4, <2>2
    <2>3. QED
      BY <2>1, <2>2
  <1> HIDE DEF q
  <1>9. /\ s \in Seq(Requests) /\ s # <<>> /\ Len(s) = Depth(t) + 1 /\ s[Depth(t) + 1] = r
        /\ \A n \in 1..Depth(t) : s[n] = q[n]
    BY <1>7, <1>8, OneMore
  <1> HIDE DEF s, g0, id
  <1>10. /\ stack' \in [Threads -> Seq(Requests)]
         /\ \A u \in Threads : stack'[u] = IF u = t THEN s ELSE stack[u]
    BY <1>2, <1>4, <1>9
  <1>11. \A u \in Threads : Depth(u)' = IF u = t THEN Depth(t) + 1 ELSE Depth(u)
    BY <1>9, <1>10, Zenon DEF Depth
  <1>12. \A u \in Threads : Depth(u) \in Nat /\ Depth(u) <= MaxNesting
    BY <1>4 DEF Depth, IInv, TypeOK
  <1>13. \A u \in Threads : \A n \in 1..Depth(u)' :
            IF u = t /\ n = Depth(t) + 1 THEN stack'[u][n] = r
            ELSE /\ n \in 1..Depth(u) /\ stack'[u][n].g = stack[u][n].g
                 /\ ~shared' => stack'[u][n] = stack[u][n]
    <2>1. TAKE u \in Threads
    <2>2. TAKE n \in 1..Depth(u)'
    <2>3. ~(u = t /\ n = Depth(t) + 1) => n \in 1..Depth(u)
      BY <1>11, <1>12
    <2>4. ~shared' => q = stack[t]
      BY <1>1, <1>8
    <2>5. QED
      BY <1>8, <1>9, <1>10, <2>3, <2>4, Zenon
  <1>14. \A u \in Threads : /\ Len(stack'[u]) <= MaxNesting
                            /\ \A n \in DOMAIN stack'[u] : stack'[u][n] \in Requests
    <2>1. \A u \in Threads : \A n \in DOMAIN stack'[u] : stack'[u][n] \in Requests
      BY <1>10, TypedStack, Zenon
    <2>2. Depth(t) + 1 <= MaxNesting
      BY <1>4, BoundsAssumption
    <2>3. \A u \in Threads : Len(stack'[u]) <= MaxNesting
      BY <1>11, <1>12, <2>2, Zenon DEF Depth
    <2>4. QED
      BY <2>1, <2>3, Zenon
  <1>15. StackTypeOK'
    <2>1. ASSUME NEW u \in Threads, NEW n \in 1..Depth(u)'
          PROVE  stack'[u][n].g <= n
      <3>1. CASE u = t /\ n = Depth(t) + 1
        <4>1. stack'[u][n].g = g0
          BY <1>7, <1>13, <3>1, Zenon
        <4>2. QED
          BY <1>4, <1>6, <3>1, <4>1
      <3>2. CASE ~(u = t /\ n = Depth(t) + 1)
        BY <1>4, <1>13, <3>2, Zenon
      <3>3. QED
        BY <3>1, <3>2
    <2>2. QED
      BY <1>10, <2>1, Zenon DEF StackTypeOK
  <1>16. Served'
    BY <1>1, <1>10, LoggingUntouched DEF IInv, Served
  <1>17. OwnContexts'
    <2>1. SUFFICES ASSUME ~shared', NEW u \in Threads
          PROVE  /\ current'[u] = Around(u, Depth(u))'
                 /\ \A n \in 1..Depth(u)' :
                      /\ stack'[u][n].g = n
                      /\ stack'[u][n].correlation_id = stack'[u][n].id
                      /\ stack'[u][n].correlation_token = Around(u, n - 1)'
                      /\ stack'[u][n].body \in {None, stack'[u][n].id}
      BY Zenon DEF OwnContexts
    <2>2. ~shared /\ ~Sharing(t, a)
      BY <1>1, <2>1
    <2>3. \A v \in Threads :
            /\ current[v] = Around(v, Depth(v))
            /\ \A n \in 1..Depth(v) :
                 /\ stack[v][n].g = n
                 /\ stack[v][n].correlation_id = stack[v][n].id
                 /\ stack[v][n].correlation_token = Around(v, n - 1)
                 /\ stack[v][n].body \in {None, stack[v][n].id}
      BY <2>2, Zenon DEF IInv, OwnContexts
    <2>4. \A n \in 0..Depth(u) : Around(u, n)' = Around(u, n)
      <3>1. TAKE n \in 0..Depth(u)
      <3>2. n # 0 => n \in 1..Depth(u) /\ n \in 1..Depth(u)' /\ ~(u = t /\ n = Depth(t) + 1)
        BY <1>11, <1>12
      <3>3. QED
        BY <1>13, <2>1, <3>2, Zenon DEF Around
    <2>5. current'[u] = Around(u, Depth(u))'
      <3>1. CASE u = t
        <4>1. Depth(u)' = Depth(t) + 1 /\ Depth(u)' # 0 /\ Depth(u)' \in 1..Depth(u)'
          BY <1>11, <1>12, <3>1
        <4>2. stack'[u][Depth(u)'].id = id
          BY <1>7, <1>13, <3>1, <4>1, Zenon
        <4>3. current'[u] = id
          BY <1>1, <3>1 DEF IInv, TypeOK
        <4>4. QED
          BY <4>1, <4>2, <4>3, Zenon DEF Around
      <3>2. CASE u # t
        <4>1. current'[u] = current[u] /\ Depth(u)' = Depth(u) /\ Depth(u) \in 0..Depth(u)
          BY <1>1, <1>11, <1>12, <3>2
        <4>2. Around(u, Depth(u))' = Around(u, Depth(u))
          BY <2>4, <4>1, Zenon DEF Around
        <4>3. QED
          BY <2>3, <4>1, <4>2, Zenon
      <3>3. QED
        BY <3>1, <3>2
    <2>6. ASSUME NEW n \in 1..Depth(u)'
          PROVE  /\ stack'[u][n].g = n
                 /\ stack'[u][n].correlation_id = stack'[u][n].id
                 /\ stack'[u][n].correlation_token = Around(u, n - 1)'
                 /\ stack'[u][n].body \in {None, stack'[u][n].id}
      <3>1. CASE u = t /\ n = Depth(t) + 1
        <4>1. n - 1 = Depth(u) /\ Depth(u) \in 0..Depth(u)
          BY <1>12, <3>1
        <4>2. Around(u, n - 1)' = current[t]
          BY <2>3, <2>4, <3>1, <4>1, Zenon
        <4>3. g0 = n
          BY <2>2, <3>1 DEF g0
        <4>4. QED
          BY <1>7, <1>13, <3>1, <4>2, <4>3
      <3>2. CASE ~(u = t /\ n = Depth(t) + 1)
        <4>1. n \in 1..Depth(u) /\ stack'[u][n] = stack[u][n]
          BY <1>13, <2>1, <3>2, Zenon
        <4>2. n - 1 \in 0..Depth(u)
          BY <1>12, <4>1
        <4>3. Around(u, n - 1)' = Around(u, n - 1)
          BY <2>4, <4>2, Zenon
        <4>4. /\ stack[u][n].g = n
              /\ stack[u][n].correlation_id = stack[u][n].id
              /\ stack[u][n].correlation_token = Around(u, n - 1)
              /\ stack[u][n].body \in {None, stack[u][n].id}
          BY <2>3, <4>1, Zenon
        <4>5. stack'[u][n].correlation_token = Around(u, n - 1)'
          BY <4>1, <4>3, <4>4
        <4>6. QED
          BY <4>1, <4>4, <4>5, Zenon
      <3>3. QED
        BY <3>1, <3>2, Zenon
    <2>7. QED
      BY <2>5, <2>6, Zenon
  <1>18. DetailsAreLogged'
    <2>1. ASSUME ~shared', quietest' <= Error, NEW u \in Threads, NEW n \in 1..Depth(u)',
                 stack'[u][n].generic
          PROVE  /\ stack'[u][n].body = stack'[u][n].id
                 /\ \E x \in records' : x.made = stack'[u][n].id /\ x.event = "detail"
      <3>1. ~shared /\ quietest <= Error /\ records' = records
        BY <1>1, <2>1 DEF logging
      <3>2. ~(u = t /\ n = Depth(t) + 1)
        BY <1>7, <1>13, <2>1, Zenon
      <3>3. n \in 1..Depth(u) /\ stack'[u][n] = stack[u][n]
        BY <1>13, <2>1, <3>2, Zenon
      <3>4. QED
        BY <2>1, <3>1, <3>3, DetailFact DEF IInv
    <2>2. QED
      BY <2>1, Zenon DEF DetailsAreLogged
  <1>19. /\ records' \subseteq Records /\ answers' \subseteq Answers
         /\ RecordsAreAttributed' /\ RecordsAreWrittenOnce' /\ HeadersAreIds'
         /\ AnswersNameTheirRequest' /\ GenericAnswersAreTraceable'
    <2>1. /\ records' = records \cup {} /\ answers' = answers /\ (shared => shared')
          /\ UNCHANGED logging
      BY <1>1
    <2>2. QED
      BY <2>1, NobodyAnswered, NothingIsAttributable, LoggingUntouched, Zenon
  <1>20. TypeOK'
    <2>1. LoggingTypeOK' /\ shared' \in BOOLEAN
      BY <1>1, LoggingUntouched DEF IInv, TypeOK
    <2>2. current' \in [Threads -> Ids \cup {None}]
      BY <1>1, <1>3 DEF IInv, TypeOK
    <2>3. issued' \in 0..MaxRequests
      BY <1>1, <1>3 DEF Ids
    <2>4. QED
      BY <1>14, <1>19, <2>1, <2>2, <2>3, Zenon DEF TypeOK
  <1>21. QED
    BY <1>1, <1>15, <1>16, <1>17, <1>18, <1>19, <1>20, LoggingUntouched DEF IInv

(* A request ends: what was bound before it began is bound again.          *)
LEMMA EndStep ==
    ASSUME IInv, NEW t \in Threads, End(t)
    PROVE  IInv'
  <1> DEFINE st == stack[t]
             gg == Top(t).g
             rr == [st[gg] EXCEPT !.correlation_token = Gone]
             z == [st EXCEPT ![gg] = rr]
             s == Front(z)
             k == CorrelationToken(t)
  <1>1. /\ st # <<>>
        /\ current' = IF k = Gone THEN current ELSE [current EXCEPT ![t] = k]
        /\ UNCHANGED <<issued, records, answers, shared, logging>>
    BY DEF End, InPhase
  <1>2. stack' = [stack EXCEPT ![t] = s]
    <2>1. z = [st EXCEPT ![gg].correlation_token = Gone]
      OBVIOUS
    <2>2. stack' = [stack EXCEPT ![t] = Front([@ EXCEPT ![Top(t).g].correlation_token = Gone])]
      BY DEF End
    <2>3. QED
      BY <2>1, <2>2
  <1>3. /\ st \in Seq(Requests) /\ Depth(t) \in 1..MaxNesting /\ gg \in 1..Depth(t)
        /\ k \in Ids \cup {None, Gone} /\ Depth(t) = Len(st)
    BY <1>1, TopFacts DEF IInv, Depth
  <1>4. /\ stack \in [Threads -> Seq(Requests)]
        /\ \A u \in Threads : \A n \in 1..Depth(u) : stack[u][n].g <= n
    BY DEF IInv, StackTypeOK
  <1>5. ~shared => gg = Depth(t) /\ k = Around(t, Depth(t) - 1)
    BY <1>1, TopOwnsItsContext DEF IInv
  <1> HIDE DEF st, gg, k
  <1>6. rr \in Requests /\ rr.g = st[gg].g
    <2>1. st[gg] \in Requests
      BY <1>3, ElementOfSeq, Zenon
    <2>2. QED
      BY <2>1 DEF Requests
  <1> HIDE DEF rr
  <1>7. /\ z \in Seq(Requests) /\ Len(z) = Depth(t)
        /\ \A n \in 1..Depth(t) : z[n].g = st[n].g
        /\ \A n \in 1..Depth(t) : n # gg => z[n] = st[n]
    <2>1. gg \in 1..Len(st)
      BY <1>3
    <2>2. QED
      BY <1>3, <1>6, <2>1, Attributed
  <1> HIDE DEF z
  <1>8. z # <<>>
    BY <1>3, <1>7, BoundsAssumption
  <1>9. /\ s \in Seq(Requests) /\ Len(s) = Depth(t) - 1
        /\ \A n \in 1..(Depth(t) - 1) : s[n] = z[n]
    <2>1. /\ s \in Seq(Requests) /\ Len(s) = Len(z) - 1
          /\ \A n \in 1..(Len(z) - 1) : s[n] = z[n]
      BY <1>7, <1>8, DropLast
    <2>2. QED
      BY <1>7, <2>1, Zenon
  <1> HIDE DEF s
  <1>10. /\ stack' \in [Threads -> Seq(Requests)]
         /\ \A u \in Threads : stack'[u] = IF u = t THEN s ELSE stack[u]
    BY <1>2, <1>4, <1>9
  <1>11. \A u \in Threads : Depth(u)' = IF u = t THEN Depth(t) - 1 ELSE Depth(u)
    BY <1>9, <1>10, Zenon DEF Depth
  <1>12. \A u \in Threads : Depth(u) \in Nat /\ Depth(u) <= MaxNesting
    BY <1>4 DEF Depth, IInv, TypeOK
  <1>13. \A u \in Threads : \A n \in 1..Depth(u)' :
            /\ n \in 1..Depth(u) /\ stack'[u][n].g = stack[u][n].g
            /\ ~shared => stack'[u][n] = stack[u][n]
    <2>1. TAKE u \in Threads
    <2>2. TAKE n \in 1..Depth(u)'
    <2>3. n \in 1..Depth(u) /\ (u = t => n \in 1..(Depth(t) - 1) /\ n # Depth(t))
      BY <1>3, <1>11, <1>12, BoundsAssumption
    <2>4. CASE u = t
      <3>1. stack'[u][n] = z[n] /\ n \in 1..Depth(t)
        BY <1>9, <1>10, <2>3, <2>4, Zenon
      <3>2. z[n].g = stack[u][n].g /\ (~shared => z[n] = stack[u][n])
        BY <1>5, <1>7, <2>3, <2>4, <3>1, Zenon DEF st
      <3>3. QED
        BY <2>3, <3>1, <3>2, Zenon
    <2>5. CASE u # t
      BY <1>10, <2>3, <2>5, Zenon
    <2>6. QED
      BY <2>4, <2>5, Zenon
  <1>14. \A u \in Threads : /\ Len(stack'[u]) <= MaxNesting
                            /\ \A n \in DOMAIN stack'[u] : stack'[u][n] \in Requests
    <2>1. \A u \in Threads : \A n \in DOMAIN stack'[u] : stack'[u][n] \in Requests
      BY <1>10, TypedStack, Zenon
    <2>2. Depth(t) - 1 <= MaxNesting
      BY <1>3, BoundsAssumption
    <2>3. \A u \in Threads : Len(stack'[u]) <= MaxNesting
      BY <1>11, <1>12, <2>2, Zenon DEF Depth
    <2>4. QED
      BY <2>1, <2>3, Zenon
  <1>15. StackTypeOK'
    BY <1>4, <1>10, <1>13, Zenon DEF StackTypeOK
  <1>16. Served'
    <2>1. \A u \in Threads : stack'[u] # <<>> => stack[u] # <<>>
      BY <1>1, <1>10, Zenon DEF st
    <2>2. QED
      BY <1>1, <2>1, LoggingUntouched DEF IInv, Served
  <1>17. OwnContexts'
    <2>1. SUFFICES ASSUME ~shared', NEW u \in Threads
          PROVE  /\ current'[u] = Around(u, Depth(u))'
                 /\ \A n \in 1..Depth(u)' :
                      /\ stack'[u][n].g = n
                      /\ stack'[u][n].correlation_id = stack'[u][n].id
                      /\ stack'[u][n].correlation_token = Around(u, n - 1)'
                      /\ stack'[u][n].body \in {None, stack'[u][n].id}
      BY Zenon DEF OwnContexts
    <2>2. ~shared
      BY <1>1, <2>1
    <2>3. \A v \in Threads :
            /\ current[v] = Around(v, Depth(v))
            /\ \A n \in 1..Depth(v) :
                 /\ stack[v][n].g = n
                 /\ stack[v][n].correlation_id = stack[v][n].id
                 /\ stack[v][n].correlation_token = Around(v, n - 1)
                 /\ stack[v][n].body \in {None, stack[v][n].id}
      BY <2>2, Zenon DEF IInv, OwnContexts
    <2>4. \A n \in 0..Depth(u)' : Around(u, n)' = Around(u, n)
      <3>1. TAKE n \in 0..Depth(u)'
      <3>2. n # 0 => n \in 1..Depth(u)'
        BY <1>3, <1>11, <1>12
      <3>3. QED
        BY <1>13, <2>2, <3>2, Zenon DEF Around
    <2>5. current'[u] = Around(u, Depth(u))'
      <3>1. CASE u = t
        <4>1. Depth(u)' = Depth(t) - 1 /\ Depth(u)' \in 0..Depth(u)'
          BY <1>3, <1>11, <3>1, BoundsAssumption
        <4>2. Around(u, Depth(u))' = k
          BY <1>5, <2>2, <2>4, <3>1, <4>1, Zenon DEF Around
        <4>3. k # Gone
          <5>1. Depth(t) \in 1..Depth(t)
            BY <1>3, BoundsAssumption
          <5>2. Depth(t) - 1 # 0 => Depth(t) - 1 \in 1..Depth(t)
            BY <1>3, BoundsAssumption
          <5>3. Depth(t) - 1 # 0 => st[Depth(t) - 1] \in Requests
            BY <1>3, <5>2, ElementOfSeq, Zenon
          <5>4. k = None \/ k \in Ids
            BY <1>5, <2>2, <5>3 DEF Around, Requests, st
          <5>5. QED
            BY <5>4, BoundsAssumption DEF None, Ids, Gone
        <4>4. current'[u] = k
          BY <1>1, <3>1, <4>3 DEF IInv, TypeOK
        <4>5. QED
          BY <4>2, <4>4, Zenon
      <3>2. CASE u # t
        <4>1. current'[u] = current[u] /\ Depth(u)' = Depth(u) /\ Depth(u) \in 0..Depth(u)'
          BY <1>1, <1>11, <1>12, <3>2
        <4>2. Around(u, Depth(u))' = Around(u, Depth(u))
          BY <2>4, <4>1, Zenon DEF Around
        <4>3. QED
          BY <2>3, <4>1, <4>2, Zenon
      <3>3. QED
        BY <3>1, <3>2
    <2>6. ASSUME NEW n \in 1..Depth(u)'
          PROVE  /\ stack'[u][n].g = n
                 /\ stack'[u][n].correlation_id = stack'[u][n].id
                 /\ stack'[u][n].correlation_token = Around(u, n - 1)'
                 /\ stack'[u][n].body \in {None, stack'[u][n].id}
      <3>1. n \in 1..Depth(u) /\ stack'[u][n] = stack[u][n]
        BY <1>13, <2>2, Zenon
      <3>2. n - 1 \in 0..Depth(u)'
        BY <1>3, <1>11, <1>12
      <3>3. Around(u, n - 1)' = Around(u, n - 1)
        BY <2>4, <3>2, Zenon
      <3>4. /\ stack[u][n].g = n
            /\ stack[u][n].correlation_id = stack[u][n].id
            /\ stack[u][n].correlation_token = Around(u, n - 1)
            /\ stack[u][n].body \in {None, stack[u][n].id}
        BY <2>3, <3>1, Zenon
      <3>5. stack'[u][n].correlation_token = Around(u, n - 1)'
        BY <3>1, <3>3, <3>4
      <3>6. QED
        BY <3>1, <3>4, <3>5, Zenon
    <2>7. QED
      BY <2>5, <2>6, Zenon
  <1>18. DetailsAreLogged'
    <2>1. ASSUME ~shared', quietest' <= Error, NEW u \in Threads, NEW n \in 1..Depth(u)',
                 stack'[u][n].generic
          PROVE  /\ stack'[u][n].body = stack'[u][n].id
                 /\ \E x \in records' : x.made = stack'[u][n].id /\ x.event = "detail"
      <3>1. ~shared /\ quietest <= Error /\ records' = records
        BY <1>1, <2>1 DEF logging
      <3>2. n \in 1..Depth(u) /\ stack'[u][n] = stack[u][n]
        BY <1>13, <2>1, <3>1, Zenon
      <3>3. QED
        BY <2>1, <3>1, <3>2, DetailFact DEF IInv
    <2>2. QED
      BY <2>1, Zenon DEF DetailsAreLogged
  <1>19. /\ records' \subseteq Records /\ answers' \subseteq Answers
         /\ RecordsAreAttributed' /\ RecordsAreWrittenOnce' /\ HeadersAreIds'
         /\ AnswersNameTheirRequest' /\ GenericAnswersAreTraceable'
    <2>1. /\ records' = records \cup {} /\ answers' = answers /\ (shared => shared')
          /\ UNCHANGED logging
      BY <1>1
    <2>2. QED
      BY <2>1, NobodyAnswered, NothingIsAttributable, LoggingUntouched, Zenon
  <1>20. TypeOK'
    <2>1. LoggingTypeOK' /\ shared' \in BOOLEAN /\ issued' \in 0..MaxRequests
      BY <1>1, LoggingUntouched DEF IInv, TypeOK
    <2>2. current' \in [Threads -> Ids \cup {None}]
      <3>1. k # Gone => k \in Ids \cup {None}
        BY <1>3
      <3>2. QED
        BY <1>1, <3>1 DEF IInv, TypeOK
    <2>3. QED
      BY <1>14, <1>19, <2>1, <2>2, Zenon DEF TypeOK
  <1>21. QED
    BY <1>1, <1>15, <1>16, <1>17, <1>18, <1>19, <1>20, LoggingUntouched DEF IInv

-----------------------------------------------------------------------------
LEMMA StutterStep ==
    ASSUME IInv, UNCHANGED vars
    PROVE  IInv'
  <1>1. UNCHANGED <<stack, current, issued, records, answers, shared, logging>>
    BY DEF vars, context
  <1>2. TypeOK' /\ Served' /\ LoggingInv'
    BY <1>1, LoggingUntouched DEF IInv, TypeOK, Served
  <1>3. quietest' = quietest
    BY <1>1, LoggingUntouched
  <1>4. StackTypeOK' /\ OwnContexts' /\ DetailsAreLogged'
    BY <1>1, <1>3, RequestsStay, DetailsStay DEF IInv
  <1>5. RecordsAreAttributed' /\ RecordsAreWrittenOnce' /\ HeadersAreIds'
        /\ AnswersNameTheirRequest' /\ GenericAnswersAreTraceable'
    BY <1>1, <1>3, Zenon
    DEF IInv, RecordsAreAttributed, RecordsAreWrittenOnce, HeadersAreIds,
        AnswersNameTheirRequest, GenericAnswersAreTraceable
  <1>6. QED
    BY <1>2, <1>4, <1>5 DEF IInv

(* Whatever the requests and the applications do, the invariant stays.     *)
THEOREM Inductive == Spec => []IInv
  <1>1. Init => IInv
    BY InitStep
  <1>2. IInv /\ [Next]_vars => IInv'
    <2> SUFFICES ASSUME IInv, [Next]_vars PROVE IInv'
      OBVIOUS
    <2>1. ASSUME NEW t \in Threads, Log(t) PROVE IInv'
      BY <2>1, LogStep
    <2>2. ASSUME NEW t \in Threads, Return(t) PROVE IInv'
      BY <2>2, ReturnStep
    <2>3. ASSUME NEW t \in Threads, Respond(t) PROVE IInv'
      BY <2>3, RespondStep
    <2>4. ASSUME NEW t \in Threads, End(t) PROVE IInv'
      BY <2>4, EndStep
    <2>5. ASSUME NEW t \in Threads, NEW a \in Apps, Begin(t, a) PROVE IInv'
      BY <2>5, BeginStep
    <2>6. ASSUME NEW t \in Threads, NEW exc \in Exceptions, Fail(t, exc) PROVE IInv'
      BY <2>6, FailStep
    <2>7. ASSUME NEW a \in Apps, Create(a), UNCHANGED context
          PROVE  IInv'
      BY <2>7, CreateStep
    <2>8. CASE UNCHANGED vars
      BY <2>8, StutterStep
    <2>9. QED
      BY <2>1, <2>2, <2>3, <2>4, <2>5, <2>6, <2>7, <2>8, Zenon DEF Next
  <1>3. QED
    BY <1>1, <1>2, PTL DEF Spec

(* Every variable keeps its type: an identifier that a token restores is   *)
(* one that was bound.                                                     *)
THEOREM TypeCorrect == Spec => []TypeOK
  <1>1. IInv => TypeOK
    BY DEF IInv
  <1>2. QED
    BY <1>1, Inductive, PTL

(* logging.py: configurations that did not overlap leave one handler and   *)
(* the last one's levels, and repair what overlapping ones have left.      *)
THEOREM TheLastConfigurationWins == Spec => []LastCallWins
  <1>1. IInv => LastCallWins
    BY DEF IInv, LoggingInv
  <1>2. QED
    BY <1>1, Inductive, PTL

(* middleware.py: a log record carries the identifier of the request during*)
(* which it was made, also after a request made by that one has ended.     *)
THEOREM RecordsNameTheirRequest == Spec => []RecordsAreAttributed
  <1>1. IInv => RecordsAreAttributed
    BY DEF IInv
  <1>2. QED
    BY <1>1, Inductive, PTL

(* logging.py: however the steps of configurations and the records of      *)
(* other threads interleave, a record is lost only below WARNING and while *)
(* handlers are replaced, and doubled only by what overlapped.             *)
THEOREM RecordsSurviveConfiguration == Spec => []RecordsAreWrittenOnce
  <1>1. IInv => RecordsAreWrittenOnce
    BY DEF IInv
  <1>2. QED
    BY <1>1, Inductive, PTL

(* middleware.py: the client is told the identifier its request has in the *)
(* log, where its record is unless a level leaves it out or a handler was  *)
(* being replaced just then.                                               *)
THEOREM ClientsAreToldTheirRequest == Spec => []AnswersNameTheirRequest
  <1>1. IInv => AnswersNameTheirRequest
    BY DEF IInv
  <1>2. QED
    BY <1>1, Inductive, PTL

(* errors.py: what an answer does not tell of an error is in the log under *)
(* the identifier that it does tell.                                       *)
THEOREM UntoldErrorsAreLogged == Spec => []GenericAnswersAreTraceable
  <1>1. IInv => GenericAnswersAreTraceable
    BY DEF IInv
  <1>2. QED
    BY <1>1, Inductive, PTL
=============================================================================
