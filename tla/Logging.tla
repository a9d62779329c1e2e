------------------------------- MODULE Logging -------------------------------
(***************************************************************************)
(* What of the logging is shared by the applications of a process: the     *)
(* filter of structlog, the root logger, its handlers and its level.       *)
(* configure_logging, which every create_app begins with, sets them for    *)
(* all, in steps that no lock holds together.                              *)
(*                                                                         *)
(* The steps of an application are taken by whoever creates it, a thread   *)
(* that starts it or one that serves requests and does nothing else until  *)
(* create_app returns.                                                     *)
(***************************************************************************)
EXTENDS Naturals, FiniteSets

CONSTANTS
    Apps,       \* applications the process may create
    LogLevels   \* the values of LOG_LEVEL that occur

ASSUME FiniteAssumption == IsFiniteSet(Apps)

VARIABLES
    step,       \* of each application: how far configure_logging has got
    wanted,     \* of each application: its LOG_LEVEL
    existing,   \* of each application: the handlers it is yet to remove
    filter,     \* the level of structlog's filter
    level,      \* the level of the root logger
    handlers,   \* of the root logger; a handler is named for who added it
    quietest,   \* history: the highest level an application asked for
    latest,     \* history: the application that was the last to begin
    overlap     \* history: whether configurations overlapped, see Configure

logging == <<step, wanted, existing, filter, level, handlers, quietest, latest, overlap>>

Info == 1
Warning == 2
Error == 3
Critical == 4

ASSUME LogLevelsAssumption == LogLevels \subseteq Info..Critical

Configuring == {a \in Apps : step[a] \in {"filtered", "removing", "added"}}
created == {a \in Apps : step[a] = "done"}

LoggingTypeOK ==
    /\ step \in [Apps -> {"none", "filtered", "removing", "added", "done"}]
    /\ wanted \in [Apps -> Info..Critical]
    /\ existing \in [Apps -> SUBSET Apps]
    /\ filter \in Info..Critical /\ level \in Info..Critical
    /\ handlers \subseteq Apps
    /\ quietest \in Info..Critical
    /\ latest \in Apps \cup {"none"}
    /\ overlap \in {"never", "before", "now"}

(* The interpreter's root logger.                                          *)
LoggingInit ==
    /\ step = [a \in Apps |-> "none"]
    /\ wanted = [a \in Apps |-> Warning]
    /\ existing = [a \in Apps |-> {}]
    /\ filter = Info /\ level = Warning
    /\ handlers = {}
    /\ quietest = Info /\ latest = "none" /\ overlap = "never"

-----------------------------------------------------------------------------
(* create_app calls configure_logging, which begins with structlog's       *)
(* filter.  One that runs beside another makes overlap "now", and one that *)
(* has the logging to itself afterwards undoes what those left: meanwhile  *)
(* overlap is "before", and in the end it is "never" again.                *)
Configure(a, l) ==
    /\ step[a] = "none"
    /\ step' = [step EXCEPT ![a] = "filtered"]
    /\ wanted' = [wanted EXCEPT ![a] = l]
    /\ filter' = l
    /\ quietest' = IF l > quietest THEN l ELSE quietest
    /\ latest' = a
    /\ overlap' = CASE Configuring # {} -> "now"
                    [] Configuring = {} /\ overlap = "never" -> "never"
                    [] OTHER -> "before"
    /\ UNCHANGED <<existing, level, handlers>>

(* Variant: it adds its handler to those there are.                        *)
ListNone(a) ==
    /\ step[a] = "filtered"
    /\ step' = [step EXCEPT ![a] = "removing"]
    /\ UNCHANGED <<wanted, existing, filter, level, handlers, quietest, latest, overlap>>

(* It lists the handlers there are.                                        *)
ListHandlers(a) ==
    /\ step[a] = "filtered"
    /\ step' = [step EXCEPT ![a] = "removing"]
    /\ existing' = [existing EXCEPT ![a] = handlers]
    /\ UNCHANGED <<wanted, filter, level, handlers, quietest, latest, overlap>>

(* It removes them one by one; one that is gone already does no harm.      *)
RemoveHandler(a) == \E h \in existing[a] :
    /\ step[a] = "removing"
    /\ existing' = [existing EXCEPT ![a] = @ \ {h}]
    /\ handlers' = handlers \ {h}
    /\ UNCHANGED <<step, wanted, filter, level, quietest, latest, overlap>>

AddHandler(a) ==
    /\ step[a] = "removing" /\ existing[a] = {}
    /\ step' = [step EXCEPT ![a] = "added"]
    /\ handlers' = handlers \cup {a}
    /\ UNCHANGED <<wanted, existing, filter, level, quietest, latest, overlap>>

(* Variant: the level of the root logger is set by who comes first.        *)
SetLevelOnce(a) ==
    /\ step[a] = "added"
    /\ step' = [step EXCEPT ![a] = "done"]
    /\ level' = IF created = {} THEN wanted[a] ELSE level
    /\ overlap' = IF overlap = "before" THEN "never" ELSE overlap
    /\ UNCHANGED <<wanted, existing, filter, handlers, quietest, latest>>

(* The rest of create_app leaves the logging alone.  One that raises after *)
(* configure_logging is like an application that gets no request.          *)
SetLevel(a) ==
    /\ step[a] = "added"
    /\ step' = [step EXCEPT ![a] = "done"]
    /\ level' = wanted[a]
    /\ overlap' = IF overlap = "before" THEN "never" ELSE overlap
    /\ UNCHANGED <<wanted, existing, filter, handlers, quietest, latest>>

Create(a) ==
    \/ \E l \in LogLevels : Configure(a, l)
    \/ ListHandlers(a) \/ RemoveHandler(a) \/ AddHandler(a) \/ SetLevel(a)

-----------------------------------------------------------------------------
Emitted(severity) == severity >= filter /\ severity >= level

(* How often a record is written: once by each handler, or, when there is  *)
(* none, by the interpreter's handler of last resort, from WARNING on.     *)
Copies(severity) ==
    IF handlers # {} THEN Cardinality(handlers)
    ELSE IF severity >= Warning THEN 1 ELSE 0

(* logging.py:98: "the last call wins".  Once applications that did not    *)
(* configure the logging at the same time have done so, its handler and    *)
(* its levels are the last one's, also where earlier ones had overlapped.  *)
LastCallWins ==
    Configuring = {} /\ latest # "none" /\ overlap = "never" =>
        handlers = {latest} /\ level = wanted[latest] /\ filter = wanted[latest]
=============================================================================
