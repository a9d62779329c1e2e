# A verification project for the Student Learning Platform

TLA+ modules that model the platform's backend (`src/learning_platform`, `wsgi.py`), TLC
configurations that check them on small instances, and TLAPS proofs of what matters most.
File names below are relative to the repository; `unit_of_work.py` is the one in
`infrastructure/database` unless the port is named.

## The system

The repository is the foundation phase of a Flask application: there are no product
use cases yet, but the machinery they will run on is complete. That machinery is what is
modelled here.

| component | state | operations | used by |
|---|---|---|---|
| unit of work (`application/ports/unit_of_work.py`, `infrastructure/database/unit_of_work.py`) | `_session`; behind it the session's pending and flushed rows, its connection, the PostgreSQL transaction | `__enter__`, `session`, `audit`, `commit`, `rollback`, `__exit__` | every use case and task handler |
| engine and pool (`infrastructure/database/engine.py`) | the pool's places, the links in them, the queue of waiters | checkout and return (SQLAlchemy), `check_connection`, `dispose_engine` | units of work, readiness |
| audit trail (`domain/audit.py`, `application/ports/audit_sink.py`, `infrastructure/audit`) | the dictionaries of events and records; the table `audit_events` | `record_audit_event`, `record` | use cases |
| inline tasks (`application/ports/task_dispatcher.py`, `infrastructure/tasks/inline.py`) | the table of handlers | `register`, `dispatch` | use cases, handlers |
| health (`web/blueprints/health.py`) | none | `GET /healthz`, `GET /readyz` | load balancer |
| configuration (`infrastructure/config`) | frozen settings | `resolve_app_environment`, `load_settings`, `load_hosted_settings`, validation | factory, entry point, migrations |
| application factory (`web/app.py`, `extensions.py`, `security.py`, `wsgi.py`) | the application object | `create_app`, `shutdown` | host platform, tests |
| request context and errors (`web/middleware.py`, `web/errors.py`, `observability/context.py`) | one context variable | bind, restore, respond | every request |
| logging and redaction (`observability/logging.py`, `domain/sensitive.py`) | handlers and level of the process | `configure_logging`, processors | everything |
| other domain types (`domain/*`) | frozen values | constructors | use cases |
| migrations (`infra/migrations`) | Alembic's version table | upgrade, downgrade | operators |

The parts meet in three places. The **pool** is shared by everything that talks to the
database in one process: units of work in several threads, handlers of tasks dispatched
inside a unit, and readiness probes; there is no overflow (`max_overflow=0`). The
**session** is shared by the use case, the audit sink and autoflush. The **settings** decide
once, at start-up, how everything else behaves.

What is hard here: rows reach the transaction at moments the use case does not choose
(autoflush); any call that needs the database may fail, and the use case may swallow the
failure; a statement may fail on a connection that lives, after which PostgreSQL and the
session disagree about the transaction; a COMMIT may be carried out and its answer lost;
connections die in the pool; units wait for the pool and for each other's rows; a process may
be killed at any point; nested activations hold a connection and rows while they wait for
more; the logging is replaced in steps while other threads log; and a dozen variables decide
whether a process is a public deployment.

What makes each part correct:

* *unit of work*: a committed change has its audit record and the reverse; a boundary that
  did not raise tells the truth to a use case that was not told of an error before; nothing is
  kept when a block is left by an exception; an event is committed by one unit; every way out
  of the block returns the connection; every block is left in the end.
* *audit trail*: what is stored is what was asserted and validated, once per event, under the
  time of the transaction that committed it.
* *pool*: one connection per client, every checkout answered.
* *inline tasks*: failures reach the caller through every frame and close every unit on
  the way; a task is not done when what justified it is not; nobody waits for ever for a
  connection.
* *readiness*: an alarm has a cause; probes cost nothing; the endpoint always answers.
* *request context and logging*: a record, a header and an error body name the request they
  belong to, and a thread between two requests names none; what is kept from the client is in
  the log; the last configuration wins, and a record is written once.
* *migrations*: the schema is the one `alembic_version` names, whatever fails or overlaps.
* *start-up*: a hosted process never serves as a developer's machine; a deployed one is
  complete; sessions survive restarts.

## Modules

`ConnectionPool` is extended by everything that checks connections out. Theorems about a
module are in `<Module>Proofs` (those about the pool's operators in `PoolProofs`);
`MC<Module>` gives TLC its constants and symmetry sets.

### ConnectionPool

`slot` is the pool's places, each with its owner and what its link is worth (`closed`,
`live`, `dead`); `waiting` is the queue; `server` is whether PostgreSQL accepts
connections. `Request`, `Grant`, `ConnectFail` and `Timeout` are one checkout: `Grant` is
what `pool_pre_ping` and `pool_recycle` make of an idle link, `ConnectFail` is bounded by
`connect_timeout`, `Timeout` is `pool_timeout`. `Returned` is the reset on return.
`Outage`, `Recover`, `Drop` and `ProcessEnds` are what happens around it. The pool is
SQLAlchemy's `QueuePool`; what is modelled is what the arguments of `build_engine` make of it.

### UnitOfWork

Units are the pool's clients. `at` says whether a unit is in its body or inside a call
that may use the database (`query`, `commit`, `exit`); `tx`, `pending` and `written` are
the session: whether its transaction is usable, the rows added and the rows flushed;
`durable` is what the database has committed. `staged`, `promised`, `warned`, `doubtful` and
`unsure` are history: what the use case believes, and what it was told.

A transaction fails in two ways. A flush that fails makes it `inactive`: the session knows,
and refuses everything until it is rolled back. A statement of a query that fails makes it
`aborted`: PostgreSQL has dropped what was flushed and refuses every other statement, but the
session takes it for active and sends COMMIT at the next boundary, which PostgreSQL answers by
ROLLBACK and the driver does not take for an error (`CommitRolledBack`). A use case that
swallowed the first error is told nothing at the boundary. The model keeps who was told of an
error since the last boundary (`warned`) and what was promised to such a unit (`doubtful`).

| action | code |
|---|---|
| `Enter` | `__enter__`: a session is made, no connection is taken |
| `Change`, `Record` | `uow.session.add`, `uow.audit.record`: nothing is sent |
| `Query` | a query on the session; with pending rows it autoflushes first |
| `Commit`, `Rollback` | `commit()`, `rollback()` |
| `ExitClean`, `ExitRaise` | `__exit__` without and with an exception |
| `Checkout`, `Connected`, `NotConnected` | the connection, when a call first needs it |
| `Flush`, `FlushFails` | the INSERTs: a broken link, an aborted transaction, a refused value, a duplicate key or a deadlock fails them and poisons the session |
| `QueryAnswered`, `QueryFails` | the statement of the query: answered, or failed on a live link |
| `Committed`, `CommitRolledBack`, `CommitUnacknowledged`, `LinkFoundDead`, `NothingToCommit`, `Refuse` | how the call ends |
| `Kill` | the platform ends the process |

The use cases are the environment: they do anything the API lets them do, in any order,
except that at a boundary an action's change and its audit event are both staged or
neither is (`Paired`), which is the rule of `audit_sink.py`, and that they do not stage the
same row twice. The model does not help them otherwise: they may swallow any error.

`AtomicUnits` is the port's promise with no session and no connection: publish everything
staged or lose it, and, to a unit that was warned and to no other, `Pretend` to have published
what is lost. `UnitOfWork!ImplementsAtomicUnits` instantiates it with `phase` computed from
`at`, from whether the transaction is poisoned or aborted and from whether the link is dead.

### UnitObject and AuditTrail

`UnitObject` is the same class, seen as an object that is entered again or entered while it
is inside, with its checkpoints and rollbacks. Here the question is what `self._session`
refers to. It has no specification of its own: `AuditTrail` extends it, and each of its
actions is one of `UnitObject`'s together with what it does to audit events.

| action | code |
|---|---|
| `Construct`, `ConstructBare` | `record_audit_event`, which copies the caller's dictionary, and `AuditEvent(...)`, which refers to it; both validate |
| `AlterCaller`, `AlterEvent` | the caller changes its dictionary, or the one the frozen event refers to |
| `Record` | `SqlAlchemyAuditSink.record`: one `AuditEventRecord` with a copy of the context |
| `FlushAndQuery`, `QueryFails`, `CallFails` | a query inside the block: answered; its statement fails; its flush, or a `commit()`, fails |
| `CommitEarly`, `CommitEarlyPretending`, `CommitEarlyUnacknowledged`, `RollbackEarly` | `commit()` inside the block: committed, answered by ROLLBACK, committed with the answer lost; `rollback()` |
| `LeaveCommitting`, `LeavePretending`, `LeaveUnacknowledged`, `LeaveRaising`, `LeaveEmpty` | the outcomes of `__exit__`: committed, answered by ROLLBACK, committed with the answer lost, left by an exception (of the block or of a refused COMMIT), no session any more |

`dict` says which dictionary each holder of a context (the caller, the event, the row) refers
to, `content` what is in it, so that a missing copy is a change of `dict` and not of a value.
Rows are record objects and `of` is the event of each: one event may be recorded again, in a
unit tried a second time. `begun` is when a session's transaction began, which is what
PostgreSQL's `now()` says and hence `recorded_at`.

### InlineTasks

Frames are activations of application code: the use case of a thread (depth 1), the
handler of the task it dispatches (depth 2), and so on. Only the deepest running frame of a
thread goes on (`Top`); `raising` marks a thread whose exception is on its way up, which
leaves blocks (`LeaveRaising`) and frames (`Unwind`) until somebody swallows it (`Catch`).
A frame's unit of work is reduced to the row it writes (`target`), whether it has work in its
transaction (`wrote`), its connection, and what a failed call made of its session (`poisoned`)
or its transaction (`aborted`).

Rows are `Own`, which no other frame writes, or `Contested`. A frame that writes a contested
row waits (`WaitsFor`) while another one has it in an open transaction on a live connection.
When that one is suspended in `dispatch`, in the same thread or in one that waits in turn, it
is in no statement: PostgreSQL sees no cycle, and `build_engine` sets neither `lock_timeout`
nor `statement_timeout`. `Entangled` names these threads, and `ThreadsEnd` excepts a thread
that stays entangled for ever and nothing else. A frame flushes once, so that a transaction that
waits for a row has not locked another; the cycles PostgreSQL does see are in `UnitOfWork`.

### Readiness

Probes and units of work are clients of one pool. `Ask` to `Conclude` are `check_connection`
with the endpoint's answer. `trouble` and `crowded` are history: what a probe's check met.
`Shutdown` is `PlatformExtensions.shutdown`, after which the engine can be used again.

### Startup

A configuration is a record of what `os.environ`, `.env` and the caller say, abstracted to
what the code tells apart. `ResolveAppEnvironment` is `resolve_app_environment`; `Resolve`,
`Validate` and `CreateApp` are one start; `Restart` starts the instance again on the same
configuration.

### Logging and RequestContext

`Logging` is what the applications of a process share: `create_app` begins with
`configure_logging`, which replaces structlog's filter, the handlers of the root logger and its
level for all of them. It does so in steps that no lock holds together, while other threads log
and other applications do the same:

| action | code |
|---|---|
| `Configure` | `structlog.configure` with the level of the settings (`logging.py:114-119`) |
| `ListHandlers`, `RemoveHandler` | the copy of `root.handlers` and the loop over it (135-136) |
| `AddHandler` | `root.addHandler` (137) |
| `SetLevel` | `root.setLevel` (138), and the rest of `create_app` |

A record below either level is not written, so that the properties about records name the
level they hold for: the record of a request needs INFO, the detail of an error anything but
CRITICAL. `Copies` is how often a record is written: once by each handler, or, while there is
none, by the interpreter's handler of last resort, which takes WARNING and above. `amid` and
`overlapped` of a record say whether an application configured the logging when it was made,
and whether configurations that ran at the same time had left what it found.

`stack` holds the open requests of each thread, `current` the context variable of
`observability/context.py`. `Begin`, `Respond` and `End` are the three hooks of
`middleware.py`; `Fail` is a view that raises together with the handler Flask finds among
the registered ones, that of the nearest class (`Handler`); `Log` is a record made by anybody. The identifier a client is
told comes from `g`, the one a record carries from the context variable, and the module
asks whether the two part. Where Flask keeps `g` is external.

The properties are stated for threads in which no request shared another one's `g`
(`shared`). Flask gives a request the application context of the request around it when
both are of one application, as when a view calls its own application through a test
client. There the inner request takes the token out of `g`, the outer one finds none, and
its identifier stays bound in the idle thread. Nothing in the repository makes such a
request; the model has it, and the properties name it as their exception.

### Migrations

Several runs of `alembic upgrade head` and `alembic downgrade -1` against one database.
`applied` is the revisions whose tables exist and `versions` the rows of `alembic_version`;
each run has the `head` it believes in, a `target`, and a `phase`. `Begin` reads the version,
once and outside of any lock; then, in one transaction per revision, `ChangeSchema` executes
the revision, `MoveVersion` changes the version and `Commit` ends it. Nothing tells the runs
of each other but the locks of PostgreSQL: a run that meets another's uncommitted work waits
for it and then finds its own statement wrong, or right. Alembic and PostgreSQL are external;
`transaction_per_migration` and the revision's two functions are the repository's.

## Runs

| run | instance | shows |
|---|---|---|
| `UnitOfWorkContention` | 2 units, 1 action, 1 place, one unit's audit row refused | `TypeOK`, `Evidence`, `Truthful`, `NoLeak`, `ImplementsAtomicUnits` |
| `UnitOfWorkProgress` | 2 units, 1 action, 2 places, a server that may go for good | `UnitsEnd`, `CommittedByOne`, and the inductive invariant `IInv` |
| `AuditTrail` | 2 events, 2 rows, 3 sessions on one object, nested 2 deep, 2 times, symmetric | `TypeOK`, `StoredIsAsserted`, `ValidatedIsStored`, `RecordedOnce`, `OneStampPerTransaction`, `StampsLieInTheirUnit`, `SessionIsOpen`, `DroppedIsGone`, `ReuseIsSafe` |
| `InlineTasks` | 2 threads, one of them 2 deep, 2 places, 1 contested row, one fault at a time | `TypeOK`, `OnlyInsideHolds`, `FailureIsSeen`, `LateTasksAreJustified`, `ThreadsEnd` |
| `Readiness` | 2 probes, 1 unit, 2 places | `TypeOK`, `ProbesLeaveNothing`, `NoFalseAlarm`, `ProbesAreAnswered` |
| `RequestContext` | 2 threads, 3 applications, 3 levels, 2 requests, 2 deep | `TypeOK`, `LastCallWins`, `RecordsAreAttributed`, `RecordsAreWrittenOnce`, `AnswersNameTheirRequest`, `GenericAnswersAreTraceable` |
| `Startup` | every configuration, 2 starts | `TypeOK`, `HostedRunsAsDeployed`, `DeployedIsHardened`, `SessionsSurviveRestart` |
| `Migrations` | 3 runs, 5 starts, 2 revisions | `TypeOK`, `SchemaMatchesVersion`, `UpgradedMeansHead`, `RunsEnd` |

Four runs check a sentence of the documentation that the code does not keep, and end in the
counterexample:

| run | sentence | what happens |
|---|---|---|
| `InlineTasksEarly` | "enforced here [...] Dispatch happens after the transaction that justifies it commits" (`task_dispatcher.py:8-14`) | nothing enforces it; the task stays done, its caller is rolled back |
| `ReadinessCrowded` | "Answers 503 when a configured dependency is unreachable" (`health.py:39`) | also when the pool is busy |
| `StartupDotenv` | configuration "is read from the environment and `.env`" (`app.py:46`) | `APP_ENV` in `.env` has no effect |
| `UnitOfWorkSwallowed` | "Leaving the context manager without an exception commits" (port, `unit_of_work.py:23`) | not after a statement failed and the use case swallowed its error: COMMIT is answered by ROLLBACK and nothing raises |

Some observations have no run of their own. A database URL with an accepted scheme that
SQLAlchemy cannot use (a port that is no number) passes validation, and `create_engine` stops
`create_app` with an error of its own, although `app.py:50` says "ConfigurationError: if the
environment is missing or invalid"; this is the phase `crashed` of `Startup`.

`configure_logging` is "safe to call more than once; the last call wins" (`logging.py:98`) as
long as the calls do not overlap. Two that do may each remove only what was there before
either added a handler, and leave two: every record is then written twice, until a later call
replaces both. That is why `LastCallWins` and `RecordsAreWrittenOnce` name overlapping
configurations as their exception. Between the removal and the addition of the handler an INFO
record of another thread is lost, and one from WARNING on is written by the interpreter's
handler of last resort, in that handler's format.

What a handler of an inline task cannot do is write a row its suspended caller has flushed: it
waits for ever (see `InlineTasks` above). `task_dispatcher.py:14`, which has a task dispatched
after the transaction that justifies it, would exclude it, and is not enforced.

What `commit()` kept stays when the block
raises later, which is what a checkpoint is for, whatever "There is no partial-success
mode" (port, `unit_of_work.py:24`) may suggest; `Truthful` and `AtomicUnits` say so. And a
unit object entered again while it is inside loses the outer session, so that the outer
block leaves cleanly and commits nothing; `ReuseIsSafe` is therefore stated for blocks that
are not nested, while `SessionIsOpen` and `DroppedIsGone` hold for nested ones as well.

An `AuditEvent` is frozen and its context is not: `event.context[...] = ...` after the
constructor stores what `__post_init__` would have refused, and so does a change of the
caller's dictionary where the event was made by `AuditEvent(...)` itself, although "the domain
rejects sensitive field names before a record reaches this table" (`models.py:63`).
`ValidatedIsStored` names these two ways as its exceptions; through `record_audit_event`, the
one way the repository uses, there is no other. `recorded_at` is "when the row was written"
(`models.py:43`) only in the sense of `base.py:62-64`: when its transaction began, which may be
before the event's `occurred_at`. And "a denied or failed action is still audited"
(`audit_sink.py:7`) asks for a block of its own: a refusal that is recorded in the block it
leaves by raising `AuthorizationDenied` is rolled back with it, which is `DroppedIsGone`.

### Bounds

*Two units, one or two places.* Units meet only in the pool and over rows. One place makes
them wait for the pool, two make them wait for each other; two units suffice for a deadlock
and for a duplicate key. The proofs drop these bounds.

*One action.* An action is a change and its record, two rows that autoflush can separate;
two units that run the same action collide on both. In `UnitOfWorkContention` the database
refuses the audit row of one unit and takes that of the other.

*Two threads, two places, three frames* (`InlineTasks`): a use case and its handler hold a
connection each or compete for them with the other thread, and any two of the three may want
the contested row. A frame flushes, swallows and dispatches at most once. `OneFault` stops at
the states in which two things are wrong at once (frames that swallowed or whose session or
transaction has failed, dead links, an outage are counted); it cuts behaviours short and judges
none of them, so that `ThreadsEnd` is checked where it says most, behind a single fault. The
handler that waits for its own caller is in this instance; two threads whose handlers each wait
for the other's suspended caller need four connections and are beyond it, though not beyond
what `Entangled` says.

*AuditTrail*: two rows are what two flushes of one transaction, or the second try of a unit
with the same event, need; the other event shows that they are not confused. Two times tell
before from after; a context is acceptable or not, and changes once. `NestedAreUnaltered`
explores nested blocks with events that `record_audit_event` made from contexts nobody has
altered: what nesting disturbs is sessions, what altering disturbs is dictionaries, and the
proofs have both at once.

*Migrations*: an upgrade and a downgrade that have read the same version, and a third run that
brings back what the second took away. Today there is one revision; two make a plan of
several steps, between which another run may commit.

*RequestContext*: one request within another, or a request on each of two threads, while an
application configures the logging; one application is in development and the others are not.
Two applications may overlap; the third is created after them (`DemoIsLast`), to undo what they
left or to replace the handler while a request is handled. The code of applications logs one
record (`OneOfTheApplication`), since each is judged by itself. A record is handled in one
moment: one that is handled while the list of handlers changes is `amid`, whatever it meets. The
levels are INFO, ERROR and
CRITICAL: everything, details only, nothing. A thread that is idle may log, so that
`RecordsAreAttributed` also says that nothing is left bound between requests.

*An outage that does not end* (`GrimSpec` of `MCUnitOfWork`, for `UnitsEnd`): the behaviours
in which nothing recovers, no single link drops and nothing is killed. An outage already
breaks every link at any moment, and what a recovery or a kill adds only helps a unit to
end; the other runs have all of them.

*Three sessions on one object*: nesting two deep shows the loss, and a block after a nested
one shows it is not repaired.

*Startup*: the texts are one of each class the code tells apart, an unknown one included.
Two starts are what `SessionsSurviveRestart` compares.

### Fairness

* A checkout in progress ends (`Readiness`, `UnitOfWork`, `InlineTasks`): justified by
  `pool_timeout` and `connect_timeout`, which `build_engine` always sets (both settings
  have lower and upper bounds).
* A statement in progress ends: PostgreSQL answers it, breaks the deadlock it is in, or the
  connection is found dead.
* A use case leaves its block: it is a finite piece of code. In `UnitOfWork` this is strong
  fairness of leaving, since a body that keeps making calls is only sometimes able to leave;
  in `InlineTasks` frames are bounded, so that weak fairness of the code suffices.
* A run of Alembic goes on (`Migrations`): PostgreSQL answers its statement, if need be when
  the transaction it waits for has ended. Weak fairness of the run's steps; none of failures.
* Nothing is assumed of the server (it need not recover), of links, of kills, of the pool's
  other clients (they need not return what they hold), or of the order in which waiters are
  served: a unit that is passed over times out.

## Proofs

Every invariant and every action property that a passing run checks is also a theorem, for
every value of the constants; so is the refinement of `AtomicUnits`. Each proof has the same
shape: a conjunction `IInv` that contains the properties and what they rest on, a lemma for
each action that it is kept, `Inductive` (`Spec => []IInv`), and one theorem per property.
`TypeCorrect` (`Spec => []TypeOK`) is proved in every module. `IInv` is defined in the module
itself for `UnitOfWork` (the run `UnitOfWorkProgress` checks it) and `Migrations`, otherwise
in the module of the proofs. TLC found each of them true, on the instance of the module's run,
before it was proved: take a module that extends `MC<Module>` and `<Module>Proofs`, and
add `IInv` to the cfg.

| module | theorem | property |
|---|---|---|
| `UnitOfWorkProofs` | `EvidenceIsComplete` | `Evidence` |
| | `BoundariesAreTruthful` | `Truthful` |
| | `ConnectionsAreReturned` | `NoLeak`, `OneConnectionEach` |
| | `NoRowIsCommittedTwice` | `CommittedByOne` |
| | `Refinement` | `ImplementsAtomicUnits` |
| `MigrationsProofs` | `SchemaIsVersion` | `SchemaMatchesVersion` |
| | `UpgradeReachesHead` | `UpgradedMeansHead` |
| `AuditTrailProofs` | `ObjectNamesAnOpenSession`, `DroppedStaysDropped`, `UseInTurnIsSafe` | `SessionIsOpen`, `DroppedIsGone`, `ReuseIsSafe` |
| | `TableHasWhatWasAsserted`, `TableHasWhatWasValidated`, `TableHasEventsOnce` | `StoredIsAsserted`, `ValidatedIsStored`, `RecordedOnce` |
| | `CommitHasOneStamp`, `StampsAreOfTheirUnit` | `OneStampPerTransaction`, `StampsLieInTheirUnit` |
| `InlineTasksProofs` | `ExceptionsLeakNothing` | `OnlyInsideHolds` |
| | `FailuresAreSeen`, `LateTasksJustified` | `FailureIsSeen`, `LateTasksAreJustified` |
| `ReadinessProofs` | `ProbesAreClean`, `AlarmsHaveCauses` | `ProbesLeaveNothing`, `NoFalseAlarm` |
| `RequestContextProofs` | `TheLastConfigurationWins`, `RecordsSurviveConfiguration` | `LastCallWins`, `RecordsAreWrittenOnce` |
| | `RecordsNameTheirRequest` | `RecordsAreAttributed` |
| | `ClientsAreToldTheirRequest`, `UntoldErrorsAreLogged` | `AnswersNameTheirRequest`, `GenericAnswersAreTraceable` |
| `StartupProofs` | `HostedIsHosted`, `DeployedMeansHardened` | `HostedRunsAsDeployed`, `DeployedIsHardened` |
| | `RestartsKeepSessions` | `SessionsSurviveRestart` |

`PoolProofs` holds the lemmas about the operators of `ConnectionPool` (what a grant, a return,
a refusal and a loss do to places, owners and links) that `UnitOfWorkProofs`,
`InlineTasksProofs` and `ReadinessProofs` share.

### Units of work

`Evidence` is not inductive: a commit adds what was flushed, so one has to know that what is
flushed is paired. It is, because what a healthy session has pending or flushed is exactly
what the use case staged since the last boundary (`SessionMatchesBelief`), a boundary is
only entered with changes and records paired (`PairedAtBoundary`), and a session that has
lost rows is poisoned, in an aborted transaction or on a dead link, and commits nothing. That
last step needs that a link that is live has been the unit's own since the rows were flushed: a
unit has at most one connection (`OneConnectionEach`), and rows in a transaction have one, as
has a transaction that was aborted (`WrittenIsHeld`). `Truthful` rests on the same conjuncts,
and on who was told: a unit whose transaction is aborted is `warned`, so that what
`CommitRolledBack` promises it is `doubtful`. `NoLeak` rests on the pool's operators.

`CommittedByOne` is not inductive either: a commit adds rows, and must find none of them
committed by another. `LockedAlone` is what the primary key gives: a row in an open transaction
is in no other and in nobody's committed rows. A flush establishes it, since it waits for rows
that are locked and fails on rows that exist; a dead link gives the locks up, but then the unit
cannot commit.

*The refinement.* `Phase` maps a unit inside its block to `lost` when its work is gone
(`Doomed`: the transaction is poisoned or aborted, or the unit's link is dead), and to `open`
otherwise. A step of one unit takes only a free place, gives back only its own, and so leaves
the phase of every other unit alone (`OthersLinks`, `OthersPhase`). For the unit itself, each
step of a call is a publication of exactly what was staged (`Committed`, and
`CommitUnacknowledged`, which publishes without telling), a failed call the unit is told of, with
or without its work (`Warn`), a boundary that pretends (`CommitRolledBack`, of a unit that
`WrittenIsHeld` says was warned), the end of a block that raises, or nothing the abstract unit
can see. An outage loses several units in
one step, which `AtomicUnits` allows for any set of open ones, and `Kill` is `Killed`. `IInv` is
needed at the commit: without `SessionMatchesBelief` the rows that are committed need not be
the ones that were staged.

Assumptions: `PoolSize \in 1..50` is the field's bound in `settings.py:106`,
`Nobody \notin Clients` is a choice of constant, and
`Rejected \subseteq Units \X Rows` is which rows the database refuses.

### Migrations

`SchemaMatchesVersion` is not inductive: a commit applies the plan a run made when it read the
version, and other runs may have moved the version since. What makes that harmless is that a
run that has changed the version is the only one (`VersionIsLocked`): each found the version
where it starts from, so two would start from the same row and the second would wait. A run
that starts from no row needs more: its revision was not in the schema when it executed it
(`FoundAsExpected`), nobody has touched that revision since (`RevisionsAreLocked`), so the
schema is empty and there is no row. `PlanIsOpen` says that a run at the base goes up, and
that one that stops has arrived; `TableIsThere` that a committed version has a table. The two
commits share their lemma.

Assumptions: `Last \in Nat \ {0}`, there is a revision; `MaxStarts \in Nat`. What PostgreSQL
and Alembic do is part of the model, not proved.

### Audit trail

The invariant has two halves. `ObjectIInv` is about the object alone, and each of its lemmas
is about an action of `UnitObject`: the session is that of the innermost block and has what
that block staged, unless a call failed (`InnermostBlock`); the rows of the open blocks are
disjoint and undecided, but for a checkpoint whose answer was lost (`StagedApart`); a row given
to one session is never given to another, dropped or not (`AddedApart`). That last conjunct is
why `DroppedIsGone` holds in nested blocks too, where sessions are lost but never revived.
`UsedInTurn` is what is left of all this when blocks are not nested, and is what `ReuseIsSafe`
follows from. Both properties name what the code cannot promise: rows of a COMMIT without an
answer (`unsure`), inside the block or at its end, may be in the database although the block
raised; rows kept by a block that went on after a failed query (`doubtful`) may not be.

The other half is about events. `OwnDictionaries` says which dictionary each holder of a
context can refer to: a row's is its own and still has what it was handed, an event's is
its own unless it was made bare. With it, `Validated` survives `AlterCaller`, and
`FlushedAsHanded` survives everything. `KnownOnce` extends the primary key from the table to
the rows flushed but not yet committed. `TimesInOrder` says that flushed rows carry the time
their transaction began, after the last end and not in the future; it is what the two action
properties are read off.

Assumptions: bounds only (`MaxTime`, the numbers of sessions and the depth).

### Inline tasks

`FailureIsSeen` looks one frame up, and a failure may unwind several: the running frames of a
thread are its outermost ones (`Stacked`), so that a frame that has ended never has a
running one below it. `LateTasksAreJustified` needs to know of a frame past its block whether
its work became durable: if it did not and the frame did not swallow the exception, the
frame is being unwound (`UnsettledUnwind`) and dispatches nothing; `WorkIsTracked` gives that at
the moment it leaves, and `LateSettled` carries it to the task, which may outlive it. A frame
whose transaction is aborted commits nothing and is not told; `AbortedIsSeen` says that it is
being unwound already, or swallowed the error of the statement. `WaitersHoldNothing` keeps the
pool's queue apart from its places.

Assumptions: the pool's, `MaxDepth \in [Threads -> Nat \ {0}]`, and that the pool's clients are
the frames.

### Readiness

`NoFalseAlarm` blames a failed check on trouble during that check. `TroubleIsKnown` is why: a
server that is down, or a link that is dead, while a probe asks was noted for the probe when
it happened or when it began to ask. `NothingToAsk` and `WaitersHoldNothing` keep probes that
need no connection from having one.

Assumptions: the pool's, and that probes are clients of it.

### Request context

`AnswersNameTheirRequest` relates three places: the header, taken from `g`; the records, made
with the context variable; and who the request was. While no `g` is shared (`OwnContexts`),
each open request has its own `g`, with its own identifier and, as the token, the
identifier of the request around it; so that the identifier bound is that of the innermost, and
after `End` that of the one around, at any depth. `End` is the step that needs it: the token
it restores must be the identifier of the request that is now innermost, which is two
records of the stack compared. `LoggingReady` says that the levels in force are never above
`quietest`, and that there is a handler unless an application is replacing one, which with
`Served` (who handles a request has been created) makes a record that the properties promise
written, or handled amid a configuration. `DetailsAreLogged` carries a record from the moment of the error
to the moment of the answer, and `HeadersAreIds` says of answers already given what records yet
to come have to agree with. The functions of `Flask` that find a handler stay opaque: the proof
uses only what the handler found logs and answers.

`LastCallWins` and `RecordsAreWrittenOnce` rest on `Alone`: unless configurations run at the
same time, the one that runs is the last that began, has seen every handler there is when it
removes them, and leaves its own. `overlap` falls back from `now` through `before` to `never`
only when one that ran alone is done, which is where the handlers of the others are gone.

Assumptions: `Debugged \subseteq Apps`, finitely many applications, levels from INFO to
CRITICAL, and the bounds.

### Start-up

Each phase has established something that the later ones rely on: `ResolvedAs`, that
`appEnv` is what `resolve_app_environment` makes of this configuration; `ValidatedFor`, that
this configuration passed validation for that environment; `BuiltFrom`, that the application
has the signing key, the cookies and the headers that follow from both. `SignedWithKey` is what
outlives an instance. `HostedRunsAsDeployed` then is a fact about the operator alone, proved for
every pair of texts, the unknown ones included.

Assumption: `MaxInstances \in Nat \ {0}`.

### Only model-checked

Liveness (`UnitsEnd`, `ProbesAreAnswered`, `ThreadsEnd`, `RunsEnd`), which the proof system does
not reach: it has no rule for fairness, which is about `ENABLED`. The four runs that end in a
counterexample are, by their nature, TLC's.

## Not modelled

* `dispose_engine` while connections are checked out: only the teardown of tests calls it,
  after everything has ended, and that is how `Shutdown` has it.
* The redaction of a log record (`_redact_processor`, `_redact_value`): a function of that one
  record, without state and without an order of steps. In JSON format `dict_tracebacks` comes
  after it (`logging.py:109`) although line 82 calls redaction the last.
* A log record as several steps: it is filtered, attributed and written in one moment.
* What a use case might do to a statement that fails besides going on or raising: savepoints and
  retries on the same session are not used in the repository.
* Rules about one immutable value: the action name, the actor and the target of an audit
  event, external identifiers. The status codes and messages of `errors.py`.
* Alembic's offline mode, which prints SQL.
* The content of rows and messages, SQL, isolation between readers (nothing in the code
  reads yet), two-phase commit (not used).
* Which of two exceptions the caller sees when `rollback()` itself raises.
* `worker/` is a docstring; domain identifiers, clock and errors are plain values; style
  sheets and deployment data have no behaviour.

## Plan

1. *(done)* `ConnectionPool`, `UnitOfWork` with `AtomicUnits`, `Readiness`, `Startup`,
   `InlineTasks`, `RequestContext` with `Logging`, `UnitObject` with `AuditTrail`, `Migrations`.
2. *(done)* An inductive invariant of each, and the theorems above; the refinement of
   `AtomicUnits`.
3. Facts about `AtomicUnits` itself, proved of the abstract specification and carried to
   `UnitOfWork` by `Refinement`.
4. The part of liveness that is safety: that a unit, a probe or a thread that has not ended
   always has a step of its own that is not waiting for another (no circular wait outlives
   `pool_timeout`), stated without `ENABLED`.
