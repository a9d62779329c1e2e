--------------------------- MODULE RequestContext ---------------------------
(***************************************************************************)
(* The correlation identifier of a request: bound when the request begins, *)
(* attached to every log record made meanwhile, told to the client in a    *)
(* header and in the body of an error, and restored when the request ends. *)
(*                                                                         *)
(* A thread of the server handles one request after another.  Code that    *)
(* handles a request may itself make one, of another application in the    *)
(* process or of the same (a test client), before it goes on.  Flask runs  *)
(* the hooks; where it keeps g is modelled from version 3.1: a request     *)
(* gets an application context of its own, unless the innermost one is of  *)
(* the same application already.                                           *)
(***************************************************************************)
EXTENDS Logging, Sequences, SequencesExt

CONSTANTS
    Threads,
    Debugged,       \* those in development, settings.debug
    MaxRequests,    \* bound: requests altogether
    MaxNesting      \* bound: requests open in one thread

ASSUME AppsAssumption == Debugged \subseteq Apps
ASSUME BoundsAssumption == MaxRequests \in Nat /\ MaxNesting \in Nat \ {0}

VARIABLES
    stack,      \* of each thread: its open requests, the innermost last
    current,    \* of each thread: the identifier in the context variable
    issued,     \* how many identifiers were generated
    records,    \* history: the log records
    answers,    \* history: the responses
    shared      \* history: whether a request ever shared another one's g

context == <<stack, current, issued, records, answers, shared>>
vars == <<context, logging>>

None == 0       \* no identifier
Ids == 1..MaxRequests
Gone == MaxRequests + 1     \* g has no correlation_token

(* The classes of exceptions, of which others stands for any that is not   *)
(* listed, and what each is derived from.                                  *)
DomainErrors == {"ValidationFailed", "AuthorizationDenied", "NotFound",
                 "InvariantViolation", "ConfigurationError"}
Exceptions == DomainErrors \cup {"DomainError", "HTTPException", "others"}
Bases(exc) == IF exc \in DomainErrors THEN <<exc, "DomainError", "Exception">>
              ELSE <<exc, "Exception">>

(* A record carries the identifier the processor attached; made is the     *)
(* request during which it was made, copies how often it was written, amid *)
(* whether an application configured the logging just then, and overlapped *)
(* whether it found what overlapping configurations had left.              *)
Records == [made : Ids \cup {None}, carries : Ids \cup {None},
            event : {"application", "detail", "http.request"},
            copies : Nat, amid : BOOLEAN, overlapped : BOOLEAN]

Answers == [to : Ids, header : Ids \cup {None}, body : Ids \cup {None},
            generic : BOOLEAN]

(* g is where the request's application context is: the place in the stack *)
(* of the request that brought it.  correlation_id and correlation_token   *)
(* are the attributes of the application context a request brought.        *)
Requests == [app : Apps, id : Ids, g : 1..MaxNesting,
             correlation_id    : Ids \cup {None},
             correlation_token : Ids \cup {None, Gone},
             phase  : {"handling", "answered", "responded"},
             body : Ids \cup {None}, generic : BOOLEAN]

TypeOK ==
    /\ LoggingTypeOK
    /\ \A t \in Threads : /\ Len(stack[t]) <= MaxNesting
                          /\ \A n \in DOMAIN stack[t] : stack[t][n] \in Requests
    /\ current \in [Threads -> Ids \cup {None}]
    /\ issued \in 0..MaxRequests
    /\ records \subseteq Records
    /\ answers \subseteq Answers
    /\ shared \in BOOLEAN

Init ==
    /\ LoggingInit
    /\ stack = [t \in Threads |-> <<>>]
    /\ current = [t \in Threads |-> None]
    /\ issued = 0
    /\ records = {} /\ answers = {}
    /\ shared = FALSE

-----------------------------------------------------------------------------
Top(t) == Last(stack[t])
InPhase(t, phase) == stack[t] # <<>> /\ Top(t).phase = phase

(* The attributes of g as the innermost request sees them.                 *)
CorrelationId(t) == stack[t][Top(t).g].correlation_id
CorrelationToken(t) == stack[t][Top(t).g].correlation_token

Becomes(t, r) == stack' = [stack EXCEPT ![t] = Front(@) \o <<r>>]

(* What is logged with a severity carries the identifier that is bound,    *)
(* unless the level filters it out.                                        *)
Recorded(t, event, severity) ==
    IF ~Emitted(severity) THEN {}
    ELSE {[made       |-> IF stack[t] = <<>> THEN None ELSE Top(t).id,
           carries    |-> current[t],
           event      |-> event,
           copies     |-> Copies(severity),
           amid       |-> Configuring # {},
           overlapped |-> overlap # "never"]}

(* Code outside of any request, or handling one, logs something.           *)
Log(t) ==
    /\ created # {}
    /\ stack[t] = <<>> \/ InPhase(t, "handling")
    /\ records' = records \cup Recorded(t, "application", Info)
    /\ UNCHANGED <<stack, current, issued, answers, shared, logging>>

Sharing(t, a) == stack[t] # <<>> /\ stack[t][Top(t).g].app = a

(* _begin_request: a fresh identifier, bound; the token remembers what was *)
(* bound before.                                                           *)
Begin(t, a) ==
    LET id == issued + 1
        new(g) == [app |-> a, id |-> id, g |-> g,
                   correlation_id |-> id, correlation_token |-> current[t],
                   phase |-> "handling", body |-> None, generic |-> FALSE]
    IN  /\ a \in created
        /\ stack[t] = <<>> \/ InPhase(t, "handling")
        /\ issued < MaxRequests /\ Len(stack[t]) < MaxNesting
        /\ issued' = id
        /\ current' = [current EXCEPT ![t] = id]
        /\ IF Sharing(t, a)
           THEN /\ stack' = [stack EXCEPT ![t] =
                       Append([@ EXCEPT ![Top(t).g].correlation_id = id,
                                        ![Top(t).g].correlation_token = current[t]],
                              new(Top(t).g))]
                /\ shared' = TRUE
           ELSE /\ stack' = [stack EXCEPT ![t] = Append(@, new(Len(@) + 1))]
                /\ UNCHANGED shared
        /\ UNCHANGED <<records, answers, logging>>

-----------------------------------------------------------------------------
(* The classes errors.py registers a handler for, and the one Flask finds: *)
(* that of the nearest class.                                              *)
Registered == {"ValidationFailed", "AuthorizationDenied", "NotFound",
               "InvariantViolation", "DomainError", "HTTPException", "Exception"}
Handler(exc) == Head(SelectSeq(Bases(exc), LAMBDA class : class \in Registered))

(* Variant: a defect is logged like a denial.                              *)
DetailWarned(t, handler) ==
    IF handler \in {"AuthorizationDenied", "InvariantViolation", "Exception"}
    THEN Recorded(t, "detail", Warning) ELSE {}

(* What the handlers log, and which answer by a message that says nothing. *)
Detail(t, handler) ==
    CASE handler = "AuthorizationDenied" -> Recorded(t, "detail", Warning)
      [] handler \in {"InvariantViolation", "Exception"} -> Recorded(t, "detail", Error)
      [] OTHER -> {}

Generic(handler, app) ==
    handler = "InvariantViolation" \/ (handler = "Exception" /\ app \notin Debugged)

(* The view returns. *)
Return(t) ==
    /\ InPhase(t, "handling")
    /\ Becomes(t, [Top(t) EXCEPT !.phase = "answered"])
    /\ UNCHANGED <<current, issued, records, answers, shared, logging>>

(* The view raises, and the handler for the exception logs and answers.    *)
Fail(t, exc) ==
    /\ InPhase(t, "handling")
    /\ Becomes(t, [Top(t) EXCEPT !.phase = "answered", !.body = CorrelationId(t),
                                 !.generic = Generic(Handler(exc), Top(t).app)])
    /\ records' = records \cup Detail(t, Handler(exc))
    /\ UNCHANGED <<current, issued, answers, shared, logging>>

(* Variant: an answer to an error leaves before the record is made.        *)
RespondUnlogged(t) ==
    /\ InPhase(t, "answered")
    /\ Becomes(t, [Top(t) EXCEPT !.phase = "responded"])
    /\ answers' = answers \cup {[to |-> Top(t).id, header |-> CorrelationId(t),
                                 body |-> Top(t).body, generic |-> Top(t).generic]}
    /\ records' = IF Top(t).body # None THEN records
                  ELSE records \cup Recorded(t, "http.request", Info)
    /\ UNCHANGED <<current, issued, shared, logging>>

(* _log_request, the last of the after_request functions.                  *)
Respond(t) ==
    /\ InPhase(t, "answered")
    /\ Becomes(t, [Top(t) EXCEPT !.phase = "responded"])
    /\ answers' = answers \cup {[to |-> Top(t).id, header |-> CorrelationId(t),
                                 body |-> Top(t).body, generic |-> Top(t).generic]}
    /\ records' = records \cup Recorded(t, "http.request", Info)
    /\ UNCHANGED <<current, issued, shared, logging>>

(* Variants: the variable is cleared and not restored, or restored without *)
(* asking whether there is a token.                                        *)
EndClearing(t) ==
    /\ InPhase(t, "responded")
    /\ current' = [current EXCEPT ![t] = None]
    /\ stack' = [stack EXCEPT ![t] = Front(@)]
    /\ UNCHANGED <<issued, records, answers, shared, logging>>

EndUnguarded(t) ==
    /\ InPhase(t, "responded")
    /\ current' = [current EXCEPT ![t] = CorrelationToken(t)]
    /\ stack' = [stack EXCEPT ![t] =
                    Front([@ EXCEPT ![Top(t).g].correlation_token = Gone])]
    /\ UNCHANGED <<issued, records, answers, shared, logging>>

(* _end_request: the token is taken out of g, so that it is used once.     *)
End(t) ==
    /\ InPhase(t, "responded")
    /\ current' = IF CorrelationToken(t) = Gone THEN current
                  ELSE [current EXCEPT ![t] = CorrelationToken(t)]
    /\ stack' = [stack EXCEPT ![t] =
                    Front([@ EXCEPT ![Top(t).g].correlation_token = Gone])]
    /\ UNCHANGED <<issued, records, answers, shared, logging>>

Next ==
    \/ \E t \in Threads :
        \/ Log(t) \/ Return(t) \/ Respond(t) \/ End(t)
        \/ \E a \in Apps : Begin(t, a)
        \/ \E exc \in Exceptions : Fail(t, exc)
    \/ \E a \in Apps : Create(a) /\ UNCHANGED context

Spec == Init /\ [][Next]_vars

-----------------------------------------------------------------------------
(* middleware.py:3-5, context.py:34-36: every record made while a request  *)
(* is handled carries its identifier, also after a request it made itself, *)
(* and one made outside of any carries none, whatever the thread did       *)
(* before.  (Not so where a request shared another one's g.)               *)
RecordsAreAttributed ==
    ~shared => \A r \in records : r.carries = r.made

(* logging.py:134-137: while an application replaces the handler of an     *)
(* earlier one, no record is written twice and none above INFO is lost;    *)
(* applications that do so at the same time may leave two handlers, never  *)
(* none, until another one replaces both.                                  *)
RecordsAreWrittenOnce ==
    \A r \in records : /\ r.copies = 0 => r.amid /\ r.event # "detail"
                       /\ r.copies > 1 => r.overlapped

(* middleware.py:3-5: the identifier the client is told, in the header and *)
(* in the body of an error, is that of the record of its request, which is *)
(* there unless an application asked for a level that leaves it out or was *)
(* replacing the handler just then.                                        *)
AnswersNameTheirRequest ==
    ~shared => \A a \in answers :
        /\ a.body \in {None, a.header}
        /\ \A r \in records : r.made = a.to => r.carries = a.header
        /\ quietest = Info =>
             \E r \in records : /\ r.event = "http.request" /\ r.made = a.to
                               /\ (r.copies > 0 \/ r.amid)

(* errors.py:5-6: an answer that says nothing of an error carries the      *)
(* identifier under which the log has the detail, at any level but         *)
(* CRITICAL.                                                               *)
GenericAnswersAreTraceable ==
    ~shared /\ quietest <= Error => \A a \in answers : a.generic =>
        \E r \in records : /\ r.made = a.to /\ r.carries = a.body
                          /\ r.event = "detail" /\ r.copies > 0
=============================================================================
