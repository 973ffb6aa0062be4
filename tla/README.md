# Windermere in TLA+

Windermere is a SCIM server for the Swedish school data standard SS12000:2018. Clients (school
administration systems) provision users, groups and so on over HTTP; the server keeps them per tenant
in memory and in a file, or in an SQL database, and hands them to an extension that is compiled in.

This directory holds TLA+ models of the parts of it in which something can go wrong that a test
would hardly find: concurrent calls of the two storage backends and the shape of what they accept,
the storage file, the schema migrations, and the life of the program with its requests, timeouts and shutdown.
`PROJECT.json` maps every definition to the source lines it stands for, and lists the runs, the
hazards and the findings.

## The system

| Part | Source | State | Operations |
|---|---|---|---|
| Parsing, validation | `ss12000v1/types.go`, `windermere/windermere.go` (`objectParser`, `validatingObjectParser`), `windermere/validation.go`, `scimserverlite.go` (`CreateIDFromExternalID`) | none | body -> object, error or panic |
| In-memory backend | `scimserverlite/inmemory.go` | `resources`, `parsed`: tenant -> type -> ID -> resource; a mutex | Create, Update, Delete, Clear, Get*, Count, Types, Load, Serialize |
| SQL backend | `windermere/sql*.go` | the database; the connection pool | Create, Update, Delete, Clear, Get*; `initSchema` |
| SCIM server | `scimserverlite/scimserverlite.go` | none | routes a request to a backend call and its result to a response; a list is written from the map the backend returns |
| PUT compatibility | `windermere/puthandler.go` | none | adds the ID to the URL of a PUT that lacks it |
| File storage | `windermere/windermere.go` (`Save`, `loadSCIMBackend`), `saveinmemory_*.go` | the storage file | load at start, save at shutdown or when an extension asks |
| Migrations | `windermere/sqlbackend.go` (`initSchema`) | schema version | at start |
| Program | `program/main.go` | servers, signal channel | start, wait for a signal, stop in order |
| Middleware | `program/*.go` | rate limiters per tenant, access log | API keys, limit, timeout, log |
| Dummy backend, metadata | `scimserverlite/dummy.go`, `program/metadata.go` | none | - |

Requests run in goroutines of their own: access log -> timeout -> rate limit -> PUT compatibility ->
SCIM handler -> backend. An extension calls the same backend from its own goroutines. Everything they
share is in the backend (and in the rate limiters), so the backends are where the concurrency is.

What is hard in each part, and what makes it correct:

* **In-memory backend.** Two maps must agree although each method updates them one after the other;
  the mutex must be released on every path, panics included; inner maps must exist before they are
  assigned to; `GetResources` gives away the live map, which is then iterated without the mutex.
* **SQL backend.** A resource is spread over up to three tables and is read and written in as many
  statements, and a check and the write it guards are separate statements. What goes wrong in between
  depends on the isolation level of the database. A connection must go back to the pool on every path;
  foreign keys are enforced per connection on SQLite.
* **File storage.** A save ranges over the live maps without the mutex, while requests write to them; a crash
  can come at any moment of it. What is in the file must be real, and the program must start from it.
* **Migrations.** Errors and crashes between any two statements; any error of the version query counts as
  version 0. The schema must never be between two versions, and a later start must get over what an
  earlier one has left.
* **SCIM server, PUT compatibility, middleware.** The tenant and the type of a request come from what two
  authentications and the path say; a timeout answers before the backend does and leaves the handler running.
* **Program.** Signals that nobody waits for; two servers that stop one after the other; a save while late
  handlers still write. What a client has been told must be true, and must be in the file afterwards.

## Modules

| Module | Models |
|---|---|
| `SS12000` | required attributes, parser, validators, ID generator, as functions of an abstract body |
| `ResourceStore` | the store that the in-memory backend is: every call is atomic, or fails without effect |
| `SQLStore` | the store that the SQL backend is where transactions are serializable |
| `InMemoryBackend` | the in-memory backend, one step per lock operation and per map that is written |
| `SQLBackend` | the SQL backend, one step per SQL statement, over a model of the database |
| `FileStorage` | saves, the storage file, crash and restart: extends `InMemoryBackend` |
| `Migrations` | `initSchema`, one step per SQL statement |
| `ScimServer` | from a request to a call of the backend and from its result to a status, as functions |
| `Program` | the program's start, requests, timeouts and shutdown, over each backend: extends `ScimServer` |
| `MCInMemory`, `MCSQL`, `MCStorage`, `MCProgram` | the requests and constants of small instances |
| `InMemoryBackendProofs` | the inductive invariant of `InMemoryBackend` and what follows from it |
| `InMemoryRefinementProofs` | `InMemoryBackend` implements `ResourceStore` |
| `SQLBackendProofs` | the inductive invariant of the transactions of `SQLBackend`, and what follows from it |
| `SQLRowsProofs` | what the transactions make of the rows of a resource, and what is read of them |
| `SQLRefinementProofs` | `SQLBackend` with serializable transactions implements `SQLStore` |
| `FileStorageProofs` | the inductive invariant of `FileStorage` and what follows from it |
| `MigrationsProofs` | the inductive invariant of `Migrations` and what follows from it |
| `ProgramProofs` | the inductive invariants of `Program` and what follows from them |

`InMemoryBackend` instantiates `ResourceStore`, which it implements, and so does `Program`, which with a file runs
on it: there the program is checked on what the backend promises, not on its details. `SQLBackend` instantiates
`SQLStore`. What the SQL backend promises on the other databases is less than atomic calls, so `Program` has
steps of its own for it: a look at the row of the main table, and later the write.

### SS12000

A body is a record of what the code tells apart: JSON object, null, other JSON or garbage; the set of
its attributes; whether their types are right; the externalId; whether the school unit code has eight
digits; the payload. `objectParser` leaves the target nil for an unknown type, which is not an error;
`UUIDValidator` then panics on it. `CreateIDFromExternalID` decodes the body once more, and its
unchecked type assertion panics on JSON that is not an object.

### ResourceStore

`store` maps tenant, type and ID to a payload. A call is invoked, takes effect (or fails), and returns.
A create overwrites, and a read may find a resource without a parsed form, as in the in-memory backend. Of a list
it promises nothing but that it leaves the store alone: the in-memory backend cannot promise that it shows one
moment (`ListIsComplete`).

A read of the in-memory backend that finds nothing returns an untyped error where the SQL backend has a
`MissingResourceError`; both are the kind "missing" here.

### SQLStore

The same for the SQL backend, where a resource is a row and its child rows, and the two can be apart: not every
connection enforces foreign keys on SQLite, so a delete may leave child rows behind (`Left`), which join the next
resource with that ID (`Created`), turn up in a list at whichever object comes first (`Listed`), or make it panic
(`ListPanics`). An update looks for the ID in its URL and writes under the one in its body: its child rows always,
its row only if there is one (`Updated`). All this happens at one moment.

### InMemoryBackend

A goroutine is at `pc[p]`: idle, waiting for the mutex, at the top of a method ("locked"), before the
write to `resources` ("write", "remove") or to `parsed` ("writeParsed", "removeParsed", "clearParsed"),
in `writeQueryResponse` ("query", "iterate"), or about to return. The checks of a method are one step,
because under the mutex nobody can see them apart. The two assignments are two steps, and so is the time
before the first of them, because of the list: its iteration holds no lock. While a write to the listed map is
going on the iteration may read the old value, the new one or a torn string (`Torn`), and Go's
runtime may notice and kill the process (`QueryRace`, `fatal`). What is there from the start to the end
of an iteration is produced by it; what is added meanwhile may be or not, as the Go specification says. `Clear`
replaces the maps, so an iteration goes on over the old one (`frozen`).

`made` records which inner maps exist. `Load` is part of `Init`: what a file contains is a constant,
including resources that the parser no longer accepts.

### SQLBackend

`db` is what is committed; `latest` adds the writes of open transactions; `held` are the keys each
transaction has locked. A resource is the row of its main table and the rows of its child tables under
its key. Creators, mutators and readers of the seven types are programs: sequences of statements, in
the order in which the code executes them. `Key` tells which ID a statement uses, the one in the URL or
the one in the body: for an update they differ.

The database is external, and modelled by its default isolation level:

* `serializable`, SQLite: one writer at a time, which cannot commit while somebody is in a read. No
  busy timeout is configured, so a statement that meets another writer fails (`Busy`).
* `repeatableRead`, MySQL: reads come from a snapshot taken by the first statement, writes see and lock
  the latest rows, with gap locks for those that do not exist.
* `readCommitted`, SQL Server: each statement sees what is committed by then. Readers do not
  block; the locking variant would only remove behaviours.

Any statement may fail (`Fail`), and then the deferred `Rollback` runs. The pool opens connections up
to `MaxOpenConns`; idle ones expire. The first one has foreign keys switched on by `driverSpecificInit`;
`AllConnsEnforce` says whether new ones do so by themselves (they do, but for SQLite). A commit whose
acknowledgement is lost is left out: a call that returns an error has had no effect. The child tables have no
keys of their own and could hold the same row twice; the model has sets of rows (`Stored`), so that how often a
value is repeated within one resource is left out.

The readers' index map is modelled as it is: a child row of an object that the main query has not
returned goes to the first object, or is out of range and panics when there is none (`Owner`).

### FileStorage

`disk` is the file, `saver` the goroutine in `Save`, and `Request` is any step of `InMemoryBackend`. A save
takes the mutex only to read `backend.resources` (`Serialize`). `json.MarshalIndent` then goes through the
maps: for each it allocates `len(map)` entries (`RangeStart`), ranges over it (`RangeNext`) and panics if it
gets more or fewer (`RangePanics`), or the runtime notices the race (`MarshalRace`). Nothing recovers there, so
each kills the process. The outline of the maps (which tenants and types there are) is taken in one step.
`Clear` replaces maps that a save goes on to read (`kept`). `seen` is a history variable: the values that each
resource has had since the save began.

On Linux the file is replaced at once; on Windows it is truncated (`Damaged`) and then written. A crash is that
of the process (power loss, where renameio does not sync the directory, is left out). systemd starts the
program again (`Restart=on-failure`), with the same configuration; `New` fails on a file that is not JSON, and
the parser may panic on one of its resources (`Loadable`).

### Migrations

`committed` is what the database holds, `working` what the open transaction sees. `transactional` says whether
the database rolls back DDL (SQLite, SQL Server) or commits around it (MySQL). `initSchema` waits for the
database (`Ping`), reads the version (or takes any error for 0), and applies statement by statement; a table
that exists already is an error (`Exists`). The UPDATE of the version may fail unnoticed (`CommitOnly`), and so the
databases that `Init` starts from include those of newer programs whose version lags behind their schema. With
the one migration there is today that takes a newer program: its version is inserted by the migration itself.
`MaxFaults` bounds errors and crashes.

### ScimServer and Program

A request is a record: the server it comes to, its sender (an API key, or the entity ID that a
certificate has proved), method, path, media type and body, and whether the body can be read. `tenantGetter`,
`putCompatibilityHandler`, `genericSCIMHandler` and `handleBackendError` are the functions of these names. The PUT
compatibility handler joins path and ID with `path.Join`, which cleans the path: an "id" with slashes and dots
leads to another type or ID (`Parts` has the components of such IDs, `Clean` is what `path.Join` makes of them).
`NullID` is an externalId that is null, for which `encoding/json` leaves the string empty.

In `Program`, `phase` is where `run` is. `answer[c]` is what the client of connection c has got, and
`handler[c]` where the goroutine is that the timeout handler has started for it: the two are apart, since
`Timeout` answers without stopping the handler. `reply[c]` is what the handler has written. A request of the
backend takes effect in `Effect`, possibly long after its client has been answered. `Signal` is dropped unless
`run` waits for it; `Stop` of the service sends and waits. `Shutdown` of a server returns when it has no open
request (`Quiet`), whatever handlers are still running. `Save` is `FileStorage` in one step: each resource has in the
file a value that it has had during the save, or the save meets a late handler and kills the process
(`SaveRaces`), or fails (`SaveFails`). The two servers begin to listen one after the other, and an unexpected end of
either one, or of the start, is that of the program (`Fatal`).

With storage `sql`, an update or a delete first looks at the row of the ID in its URL (`SQLCheck`, or
`SQLMissing`), and writes in a later step, other requests having committed in between: an UPDATE or DELETE that
affects no row succeeds as well (`SQLUpdate`, `SQLDelete`), and an update writes the row of the ID in its body.
Check and INSERT of a create are one step, since the primary key makes them one; one that loses the race fails
(`SQLFail`). Of the tables only the rows of the main tables are followed (`SQLBackend` has the others).

`TakesEffect` says when a call takes effect: its row is then as it wanted it, and a deleted one was there before. So
a success means different things (`Promises`): with a file, that the request has taken effect; with SQL only for a
create, since a PUT or DELETE may be answered 200 or 204 without one; with the dummy backend nothing. A
refusal always means that there is and will be no effect.

The limiter admits or refuses whenever it likes: rates are about time. The backend timeout is taken to be
configured, as by default. `wrote` and `writer` are history variables.

## Runs

All runs use two goroutines unless said otherwise, two IDs, and two payloads per ID where a second one
matters. Two suffice for the properties: each is about one goroutine disturbing another, or about what
is left when a call has returned. Goroutines call again and again, so that histories are unbounded.

| Run | Question | States |
|---|---|---|
| `InMemoryCalls` | two tenants, every method, every kind of wrong body, a known and an unknown type, an empty or a stale file: atomicity, isolation, and every call returns | 190,000 |
| `InMemoryLists` | lists that race with writes | 160,000 |
| `FileStorage` | saves during requests, crashes and restarts on both platforms, from no file or an old one | 72,000 |
| `Migrations` | the real 21 statements, three errors or crashes anywhere, three versions at first and one that lags, both kinds of databases | 1,100 |
| `Program` | two requests of seven kinds on two servers, over a file, an SQL database or the dummy backend, both ways to start and to stop | 880,000 |
| `SQLSerializable` | users on SQLite, connections with and without foreign keys, an update whose body names another user than its URL: atomicity, rollback (up to the names of the goroutines) | 350,000 |
| `SQLRepeatableRead` | student groups on MySQL, with an update whose body names another group than its URL: nothing is mixed up, nothing is left behind | 230,000 |
| `SQLReadCommitted` | two tenants and two connections on SQL Server: they come back, and every call returns | 50,000 |
| `SQLTypes` | one goroutine, all seven types: creators, mutators, readers and `Clear` agree | 420,000 |

What they show. *In memory*: the mutex is held by exactly the goroutine inside a method; `parsed` is what the
parser makes of `resources` whenever the mutex is free; no inner map is written before it is made; every call is
atomic and every call returns unless the runtime kills the process. *SQL*: with serializable transactions, as on
SQLite, every call is atomic, conflicts and missing resources included, but what it does depends on child rows
that connections without foreign keys have left; on MySQL a reader never mixes versions of a resource; no path
keeps a connection. *Storage file*: whatever races with a save, the file holds values that the resources have
had, or garbage for one that changed meanwhile; on Linux no crash leaves a file that the program cannot start
from, and every save ends. *Migrations*: with transactional DDL the schema is always that of one version, and
the program serves only when all of its own is there, and comes up once errors cease. *Program*: an answered
success has taken effect (with the SQL backend: that of a create), an answered refusal never will, whatever
still runs; requests change only their own tenant's resources; after an orderly shutdown the file has what every
successful request has written; a `Stop`, and a signal that was taken, end the program.

In `FileStorage` one client and one resource suffice: a second client would wait for the mutex, and the save
races with one write at a time. There is a tenant with the old format's name "" and another. In `Program` two
connections are what one request that is late and another that is answered need; the fedtls server has two
tenants, one of them also with an API key. The PUT among the requests names one user in its "id" and another in
its externalId, which a file does not notice and the SQL backend writes. In `Migrations` there are no bounds but
the number of faults.

In `SQLReadCommitted` there are as many connections as goroutines, so that transactions meet at the locks and
a get can lose its resource halfway (`NotOne`); nobody waits for a connection there unless one has been
lost, which is what `ConnectionsReturned` excludes.

Deadlock is checked, except where the system stops for good: in the runs about lists, where the process is
killed; in `FileStorage`, where on Windows no restart gets over a truncated file; in `Program`, which ends; and in
`Migrations`, where a program that serves does nothing more to the schema.

### Where the code differs from what it says

Each of these runs checks one statement of a comment or a test, and TLC shows a behaviour of the code that
violates it.

| Run | Statement | What happens |
|---|---|---|
| `InMemoryListRace` | "GetResources returns all resources for a type" | a list can differ from its own totalResults |
| `SQLOrphans` | "automatically cleared by cascade", `TestDeleteCascade` | on SQLite only the first connection cascades |
| `SQLMixedWrite` | "Emails is the user's email addresses" | update, delete and create of one user interleave |

The models show more, without a run of their own:

* "ConflictError is returned when an attempt is made to create a resource that already exists" (`backend.go`):
  `Create` of the in-memory backend overwrites instead (`Create` in `ResourceStore`), and of two
  concurrent creates in SQL one may fail on the primary key with an untyped error (`InsertMain`).
* Under read committed a reader, too, can mix two versions of a user: `ReadsAreWhole` is checked on repeatable
  read, and does not hold on read committed.
* A create without externalId gets the ID generator's untyped error rather than a `MalformedResourceError`
  (`CreateIDFromExternalID`).
* On MySQL and SQL Server an update of a resource that another transaction has deleted succeeds, since nobody
  looks at the number of affected rows (`UpdateMain`); so does the second of two racing deletes, and both are
  answered 204 (`SQLDelete`).
* A PUT checks that the resource in its URL exists and changes the one named in its body (`Key`). If there is none of
  that name it is answered 200, on any database: no row is affected, and without foreign keys child rows are
  written that belong to nothing (`Updated`).
* On Windows a crash between the truncation and the write of the file loses everything, and no restart
  succeeds: `AlwaysLoadable` and `ComesBack` are about Linux only.
* A save, at shutdown or by an extension, that meets a write of a resource can kill the process instead of saving
  (`RangePanics`, `MarshalRace`, `SaveRaces`). At shutdown the writer is a handler that has timed out.
* A signal during start-up is dropped: the channel has no buffer and `signal.Notify` does not wait (`Signal`).
* On MySQL a failure in the middle of a migration leaves a schema between two versions, and since version 1 is
  inserted by the second statement, the next start may serve requests on it: `SchemaIsWhole` and
  `ServesItsSchema` are about transactional DDL only.

## Fairness

Goroutines are scheduled by the Go runtime, which runs every runnable one: weak fairness of the steps
inside a call. A `sync.Mutex` is handed to a waiter that has starved for a millisecond, so acquiring it
is strongly fair. In the SQL backend, waiting for a connection and for a lock of the database is
strongly fair, because the pool and the databases keep queues. Nobody is obliged to make a call, and
nothing is assumed of failures, expiry or of the race with a list.

A save runs, and takes its turn at the mutex, like a request; the service manager restarts what has died
(`Restart=on-failure`). `initSchema` is sequential, and a database that is away comes back; errors and crashes
cease after `MaxFaults`. In `Program` the main goroutine runs, the extension's `Start` returns, and for every
connection either the handler's answer is passed on or the timer fires; nothing is assumed of the start of the
backend, of the limiter and of the backend's calls, which may hang.

## Proofs

Proved for any sets of goroutines, tenants, types, requests and files, and any finite set of IDs, from
`ParserAssumption` and `BackendAssumption` (the constants have the right types, and the markers `Absent`,
`Nil`, `Free`, `Live`, `Torn` are distinct from what they must be told from):

* `Invariance`: `Spec => []Inv`. The mutex alone does not explain why `parsed` mirrors `resources`: in
  the middle of a method it does not. `Inv` says which entries may lag behind (`HalfDone`: those of the
  goroutine that has written one map and not yet the other), what a goroutine inside a method has
  established before (`InTheMiddle`: the resource an update found is still there when it is written),
  and that a resource implies the inner map. One lemma per kind of step shows that it is kept.
* `TypeCorrectness`, `Locking`, `Mirroring`, `NoNilMap`: `TypeOK`, `LockDiscipline`, `ParsedMirrors` and
  `NoNilMapWrite` follow from it.
* `Refinement`: `Spec => ImplementsStore`. A call takes effect in the step that writes `resources`, or
  if it writes nothing in the one that unlocks; there is a lemma for each method, and `InvisibleStep`
  covers the others. `LockedMirror` is where the invariant is needed: a goroutine that reads `parsed`
  under the mutex finds what belongs to the resource.

`SQLBackendProofs`, for any goroutines, requests, connections, tables' contents and all three isolation
levels, from `ParserAssumption` and `SQLAssumption`: `Invariance`, `TypeCorrectness` (`TypeOK`), `Privacy`
(`UncommittedIsPrivate`) and `PoolCorrectness` (`ConnectionsReturned`). What is private needs to know who may
write at all: the invariant says what a running call has checked, that there is nothing to go on with outside of
a transaction, and that a repeatable-read transaction has its snapshot from its first statement on
(`InTransaction`); each connection in use is open and belongs to one caller, and exactly the running calls have
one (`OwnConnection`). The actions are about one call's program of statements; the lemmas `Programs` and
`Statements` say of every program what its statements can be, so that no proof goes through all types.

`SQLRowsProofs` builds on it. `OwnedRows` (`NoOrphans`) holds at every isolation level if every connection
enforces foreign keys; without that (`SQLOrphans`) it does not hold. `WholeResources`, `WholeReads` and
`NoReadPanics` (`ResourcesAreWhole`, `ReadsAreWhole`, `ReadsDoNotPanic`) need serializable or repeatable-read
transactions besides (`Isolated`); under read committed the first does not hold (`SQLMixedWrite`). The hypotheses
are about constants, and stand inside of the box. The arguments:

* No orphans (`OrphanInv`): the foreign key looks at the latest tables, committed or not, and so the invariant is
  about these (`RowsOwned`): no statement leaves child rows without a row there, and rollbacks and commits
  move whole keys between the two.
* Whole resources (`WholeInv`): in the middle of a creator or mutator the rows under its key are not those of any
  request. `Partial` says which of the program's tables are done, statement by statement, and `Writing` that the
  writer holds the key meanwhile, so that nobody else changes or commits it; after the last statement `Partial`
  is `Whole` (`FinishedIsWhole`). An update may hold nothing, if what it wants to update has gone; then nothing
  is under the key until its end.
* Whole reads (`ReadInv`): what a reader sees is whole (`SnapWhole`; under serializable it sees the database itself)
  and stays the same between two of its SELECTs, since a commit waits for readers. `Reading` says that its
  objects are what it sees in the tables it has read so far, and that without any object there are no rows, which
  is why `users[0]` is never out of range.

`SQLRefinementProofs` has `Refinement`: `Serial /\ Spec => ImplementsStore`, for any goroutines, connections,
requests and tables' contents, whether connections enforce foreign keys or not. `Serial` is the one condition:
serializable transactions, SQLite's. MySQL's and SQL Server's default levels do not give atomic calls: two deletes both
find what only one of them deletes. A call takes effect when its transaction commits, or is rolled back; all other
statements are invisible (`Goes`). What remains to be shown of the commit is that the abstract call could be made at
that moment, and the invariant `AtomInv` says why, of every running call (`InProgress`):

* what the check at the beginning of the transaction has found is still so (`Found`), because nobody commits a change
  while somebody else is reading;
* as there is one writer at a time, what a transaction has under a key is what is committed there, changed by the
  statements that it has run (`Made`, with `Own`, `Makes`, `Creating`, `Updating`). This needs no foreign keys: child
  rows that were there before are part of it;
* a reader has of each object what is committed in the tables it has read, the first one has the child rows without
  a row as well (`Gathers`, `LostSub`), and without any object it has not come across child rows (`GathersNothing`),
  or it has panicked (`PanicRefines`);
* nothing is stored of a type without a table, nor in the child tables of other types (`Shaped`), which a clear
  would leave.

The lemmas `WriteCommits`, `DeleteCommits`, `ClearCommits`, `GetCommits` and `ListCommits` go through the commits one
by one, and `CommitOwn` says that a commit makes public just what `Made` is about.

`FileStorageProofs`, for any goroutines, requests, files and platforms, from `BackendAssumption` and
`StorageAssumption` (the program could load the file it starts with): `StorageInvariance`, `StorageTypes`
(`StorageTypeOK`), `MirroringRestarts` (`ParsedMirrors`), `Loading` (`AlwaysLoadable`) and `RealSaves`
(`SavesAreReal`). The invariant has the one of the in-memory backend as a part, and says of the unlocked iteration
that whatever it may read next has been seen (`Watched`), that what it has collected is real, and that what it
has not collected was absent at some moment or is still to come (`Collected`): an entry that was there at the
start of its map and is not produced has been deleted meanwhile. A mixture needs a writer, which has put a second value
among those seen (`MidWriteReal`). A file is loadable because nothing of a type without parser is ever stored when
validators need an object (`Judged`), and `DiskInv` says that it is whole but for the two steps on Windows.

`MigrationsProofs`, for any number and size of migrations and any number of faults, from
`MigrationsAssumption`: `Invariance`, `TypeCorrectness`, `WholeSchema` (`SchemaIsWhole`) and `OwnSchema`
(`ServesItsSchema`). The transaction alone does not explain why the schema is whole: the version can be read too
low, after an error or because its UPDATE has failed. The invariant (`MidMigration`) says that then the next
statement creates a table that exists, and otherwise the transaction has done just the statements before
the next one (`Before`). `HasMigrations` says that a database has all of some number of migrations, and a version that
may lag behind it. `ServesItsSchema` is about the step in which the program begins to serve: all of its schema is there
then, and a database that a newer program has marked as its own is not taken, since either its version is refused or,
read too low, leads to a table that exists.

`ProgramProofs`, for any connections, requests, clients, types and kinds of storage, from `ParserAssumption`,
`ServerAssumption` and `ProgramAssumption`: `Invariance`, `TrueAnswers` (`AnswersAreTrue`: successes as far as
they promise something, refusals always) and `OwnTenant` (`OwnTenantOnly`). An answer alone does not explain why
it is true: a handler goes on after a timeout. The invariant (`ConnInv`) says of each connection what its
goroutine knows: a call is one that its request stands for, of its own tenant (`Faithful`); a result says
whether the call has changed anything (`ResultIsTrue`); what is written is true whether it is passed on or not
(`ReplyIsTrue`); and a client has got just that, a 503, or a 403 without any goroutine (`AnswerInv`). `Serving`
and `Mapping` are about the pure functions before and after the call, `Executing` about the backends, the SQL
backend's two steps included. `ShutdownInvariance`, and from it `TypeCorrectness` (`TypeOK`) and `SavedAnswers`
(`AnsweredIsSaved`), rest on a second invariant: from one phase of the shutdown to the next fewer requests are
possible (`Closing`), so that during the save nobody is answered any more, and a handler that still writes has
timed out (`EffectShutdown`): what it overwrites is no longer promised to anybody.

Every inductive invariant was checked with TLC on the instances of the runs before it was proved.

Only model-checked: all liveness (`EveryCallReturns`, `SaveEnds`, `ComesBack`, `ComesUp`,
`ShutdownEnds`), since liveness under fairness is outside of what the prover does. Every safety invariant, action
property and refinement that a passing run checks has a theorem.

## Not modelled

Parsing of the configuration and the command line, and the installation as a service: sequential code before
anything runs. The admin server and the federation metadata: a static document. The access log: logging. The
federation's metadata store, TLS and net/http: libraries, of which only what `src/` relies on is modelled.
Extensions are not part of the repository: their calls are those of any other goroutine. `GetParsedResources`
gives them the live parsed map, with the same race as a list. The contents of rows and bodies are abstract: that a row
holds every field of its object is left to the tests (`TestIdentity`). The limiter's rates, and all other
time, are left out.

## Plan

1. *Done*: `SS12000`, `ResourceStore`, `InMemoryBackend` with its invariant and refinement proofs, `SQLBackend`.
2. *Done*: `FileStorage`, `Migrations` with its proofs, `ScimServer` and `Program`.
3. *Done*: proofs about `SQLBackend` and `FileStorage`, and about the shutdown in `Program`; that `SQLBackend`
   implements `SQLStore` when transactions are serializable.
